---- MODULE Spec2Model ----
(***************************************************************************)
(* Verification model of the send_buddy backend: the trip overlap engine   *)
(* (overlaps/services.py), the compatibility matching service              *)
(* (matching/services.py), the visibility rules they share                *)
(* (users/models.py, friendships/models.py), the notification tasks        *)
(* (overlaps/tasks.py), climbing sessions (climbing_sessions/views.py),    *)
(* blocking (users/views.py) and friend requests (friendships/services.py).*)
(*                                                                         *)
(* Database tables are sets of rows, a queryset filter is a set            *)
(* comprehension over the table, dates are day numbers.                    *)
(***************************************************************************)
EXTENDS Integers, Sequences, FiniteSets, TLC

VARIABLES
    today,        \* timezone.now().date()
    users,        \* users table: id -> row
    trips,        \* trips table: set of rows
    friendships,  \* friendships table: set of rows
    blocks,       \* blocks table: set of <<blocker, blocked>>
    overlaps,     \* trip_overlaps table: set of rows
    unique_pair,  \* whether the trip_overlaps schema rejects a repeated (trip1, trip2)
    sessions,     \* sessions table: set of rows
    notifications,\* notifications table: id -> row
    procs,        \* detection runs in flight (concurrent specification)
    log,          \* the last detection or cleanup run and what it returned
    req           \* the last read request or function call and what it returned

vars == <<today, users, trips, friendships, blocks, overlaps, unique_pair, sessions,
          notifications, procs, log, req>>

----------------------------------------------------------------------------
(* Bounds of the model *)

MaxDay == 2          \* trip dates range over 1..MaxDay
MaxNotifications == 2 \* notifications stored per recipient and overlap

(* Program constants *)

MAX_DAYS_SCORE == 30
POINTS_PER_DAY == 6
DISCIPLINE_SCORE == 25
GRADE_SCORE == 20
FRIENDSHIP_SCORE == 15
CRAG_BONUS == 10
EXPIRY_DAYS == 30
MIN_MATCH_SCORE == 20
MAX_LIMIT == 50
HIGH_SCORE == 70

UserIds == DOMAIN users     \* User.objects.all(), as ids
Anonymous == "anonymous"
Destinations == {"d1", "d2"}
Days == 1..MaxDay
Visibilities == {"full_private", "open_to_friends", "looking_for_partners"}
RiskTolerances == {"conservative", "balanced", "aggressive"}

Max(x, y) == IF x >= y THEN x ELSE y
Min(x, y) == IF x <= y THEN x ELSE y

----------------------------------------------------------------------------
(* Rows *)

\* A users row with the defaults of the User model.
NewUser == [profile_visible |-> TRUE, email_verified |-> TRUE,
            risk_tolerance |-> "balanced", disciplines |-> {}]

\* A trips row; grades are the rank of the grade string in string order, 0 is ''.
NewTrip(id, user, destination, start_date, end_date, visibility_status) ==
    [id |-> id, user |-> user, destination |-> destination,
     start_date |-> start_date, end_date |-> end_date,
     visibility_status |-> visibility_status, is_active |-> TRUE,
     preferred_disciplines |-> {}, grade_system |-> "", min_grade |-> 0, max_grade |-> 0,
     preferred_crags |-> {}, availability |-> {}]

TripById(id) == CHOOSE t \in trips : t.id = id

\* The primary keys a user's new trips get (a fresh uuid4 in the code).
TripIdsOf == [a |-> {"t1"}, b |-> {"t2"}, c |-> {"t3"}]

\* SessionStatus
PENDING == "pending"
ACCEPTED == "accepted"
DECLINED == "declined"
CANCELLED == "cancelled"
COMPLETED == "completed"
SessionStatus == {PENDING, ACCEPTED, DECLINED, CANCELLED, COMPLETED}

\* A sessions row as Session.objects.create(..., status='pending') writes it.
NewSession(id, inviter, invitee, trip, proposed_date) ==
    [id |-> id, inviter |-> inviter, invitee |-> invitee, trip |-> trip,
     proposed_date |-> proposed_date, status |-> PENDING]

\* Q(inviter=a, invitee=b) | Q(inviter=b, invitee=a)
Between(s, a, b) ==
    \/ (s.inviter = a /\ s.invitee = b)
    \/ (s.inviter = b /\ s.invitee = a)

\* block_user: Session.objects.filter(<between the two>,
\* status__in=['pending', 'accepted']).update(status='cancelled')
cancel_sessions(table, user, blocked_user) ==
    {IF Between(s, user, blocked_user) /\ s.status \in {PENDING, ACCEPTED}
     THEN [s EXCEPT !.status = CANCELLED] ELSE s : s \in table}

----------------------------------------------------------------------------
(* Visibility *)

\* UserQuerySet.visible_to, as the set of visible user ids.
visible_to_one_way(viewer) ==
    IF viewer = Anonymous
    THEN {u \in UserIds : users[u].profile_visible}
    ELSE {u \in UserIds : ~(<<viewer, u>> \in blocks) /\ users[u].profile_visible}

visible_to(viewer) ==
    IF viewer = Anonymous
    THEN {u \in UserIds : users[u].profile_visible}
    ELSE {u \in UserIds :
            /\ ~(<<viewer, u>> \in blocks \/ <<u, viewer>> \in blocks)
            /\ users[u].profile_visible}

\* Friendship.get_friends: visible users joined to the viewer by an accepted row.
get_friends_requested_only(user) ==
    {u \in visible_to(user) :
        \E f \in friendships :
            f.status = "accepted" /\ f.requester = user /\ f.addressee = u}

get_friends(user) ==
    {u \in visible_to(user) :
        \E f \in friendships :
            /\ f.status = "accepted"
            /\ \/ (f.requester = user /\ f.addressee = u)
               \/ (f.requester = u /\ f.addressee = user)}

----------------------------------------------------------------------------
(* OverlapEngine.calculate_overlap_score *)

\* overlap_start, overlap_end and overlap_days as the scorer and both detection
\* loops compute them.
overlap_window_from_first(trip1, trip2) ==
    [start |-> trip1.start_date,
     end |-> Min(trip1.end_date, trip2.end_date),
     days |-> (Min(trip1.end_date, trip2.end_date) - trip1.start_date) + 1]

overlap_window(trip1, trip2) ==
    [start |-> Max(trip1.start_date, trip2.start_date),
     end |-> Min(trip1.end_date, trip2.end_date),
     days |-> (Min(trip1.end_date, trip2.end_date)
                - Max(trip1.start_date, trip2.start_date)) + 1]

calculate_overlap_score(trip1, trip2, are_friends) ==
    LET overlap_days == overlap_window(trip1, trip2).days
        days_score == Min(overlap_days * POINTS_PER_DAY, MAX_DAYS_SCORE)
        disciplines1 == trip1.preferred_disciplines
        disciplines2 == trip2.preferred_disciplines
        discipline_score ==
            IF disciplines1 # {} /\ disciplines2 # {}
            THEN (Cardinality(disciplines1 \cap disciplines2) * DISCIPLINE_SCORE)
                    \div Cardinality(disciplines1 \cup disciplines2)
            ELSE 0
        grades_overlap == ~(trip1.max_grade < trip2.min_grade
                            \/ trip2.max_grade < trip1.min_grade)
        grade_score ==
            IF /\ trip1.min_grade # 0 /\ trip1.max_grade # 0
               /\ trip2.min_grade # 0 /\ trip2.max_grade # 0
               /\ trip1.grade_system = trip2.grade_system
               /\ grades_overlap
            THEN GRADE_SCORE ELSE 0
        friendship_score == IF are_friends THEN FRIENDSHIP_SCORE ELSE 0
        crag_score ==
            IF /\ trip1.preferred_crags # {} /\ trip2.preferred_crags # {}
               /\ trip1.preferred_crags \cap trip2.preferred_crags # {}
            THEN CRAG_BONUS ELSE 0
        score == days_score + discipline_score + grade_score + friendship_score + crag_score
    IN Min(score, 100)

----------------------------------------------------------------------------
(* OverlapEngine: detection *)

OpenStatuses == {"open_to_friends", "looking_for_partners"}

\* TripOverlap.objects.filter(Q(trip1=a, trip2=b) | Q(trip1=b, trip2=a)).exists()
overlap_exists_reverse_only(table, a, b) ==
    \E o \in table : o.trip1 = b /\ o.trip2 = a

overlap_exists(table, a, b) ==
    \E o \in table : (o.trip1 = a /\ o.trip2 = b) \/ (o.trip1 = b /\ o.trip2 = a)

\* A fresh primary key for a row on (trip1, trip2).
fresh_id(table, a, b) ==
    LET used == {o.id[3] : o \in {x \in table : x.trip1 = a /\ x.trip2 = b}}
    IN <<a, b, IF used = {} THEN 1 ELSE 1 + (CHOOSE n \in used : \A m \in used : m <= n)>>

\* The row TripOverlap.objects.create(...) is called with.
new_overlap(table, user_trip, other_trip, friend_ids) ==
    LET overlap_start == overlap_window(user_trip, other_trip).start
        overlap_end == overlap_window(user_trip, other_trip).end
    IN [id |-> fresh_id(table, user_trip.id, other_trip.id),
        user1 |-> user_trip.user, user2 |-> other_trip.user,
        trip1 |-> user_trip.id, trip2 |-> other_trip.id,
        overlap_destination |-> user_trip.destination,
        overlap_start_date |-> overlap_start,
        overlap_end_date |-> overlap_end,
        overlap_days |-> overlap_window(user_trip, other_trip).days,
        overlap_score |-> calculate_overlap_score(user_trip, other_trip,
                                                  other_trip.user \in friend_ids),
        user1_dismissed |-> FALSE, user2_dismissed |-> FALSE,
        notification_sent |-> FALSE]

\* Whether the INSERT raises IntegrityError (caught by the except clause around create).
create_raises(table, row) ==
    unique_pair /\ \E o \in table : o.trip1 = row.trip1 /\ o.trip2 = row.trip2

\* The loop body shared by both detection entry points, run over the candidate
\* pairs one after the other: exists-check, then create.
RECURSIVE create_overlaps(_, _, _, _)
create_overlaps(pairs, friend_ids, table, created) ==
    IF pairs = {} THEN [table |-> table, created |-> created]
    ELSE LET p == CHOOSE q \in pairs : TRUE
             row == new_overlap(table, p[1], p[2], friend_ids)
         IN IF overlap_exists(table, p[1].id, p[2].id) \/ create_raises(table, row)
            THEN create_overlaps(pairs \ {p}, friend_ids, table, created)
            ELSE create_overlaps(pairs \ {p}, friend_ids, table \cup {row},
                                 created \cup {row})

\* detect_overlaps_for_user: the user's eligible trips.
user_trips_of(user) ==
    {t \in trips : /\ t.user = user
                   /\ t.end_date >= today
                   /\ t.is_active
                   /\ t.visibility_status \in OpenStatuses}

\* detect_overlaps_for_user: other_trips_query.
other_trips_any_visibility(user) ==
    {t \in trips : /\ t.user \in visible_to(user) \ {user}
                   /\ t.end_date >= today
                   /\ t.is_active
                   /\ t.user # user}

other_trips_of(user) ==
    LET friend_ids == get_friends(user)
        visible_users == visible_to(user) \ {user}
    IN IF friend_ids # {}
       THEN {t \in trips :
                /\ \/ (t.user \in friend_ids /\ t.visibility_status \in OpenStatuses)
                   \/ t.visibility_status = "looking_for_partners"
                /\ t.user \in visible_users
                /\ t.end_date >= today
                /\ t.is_active
                /\ t.user # user}
       ELSE {t \in trips :
                /\ t.user \in visible_users
                /\ t.visibility_status = "looking_for_partners"
                /\ t.end_date >= today
                /\ t.is_active
                /\ t.user # user}

\* detect_overlaps_for_user: matching_trips of one user trip.
matching_trips_any_dates(user, user_trip) ==
    {o \in other_trips_of(user) : o.destination = user_trip.destination}

matching_trips(user, user_trip) ==
    {o \in other_trips_of(user) :
        /\ o.destination = user_trip.destination
        /\ o.start_date <= user_trip.end_date
        /\ o.end_date >= user_trip.start_date}

\* The (user_trip, other_trip) pairs detect_overlaps_for_user iterates over.
user_pairs(user) ==
    {<<ut, o>> : ut \in user_trips_of(user), o \in trips} \cap
    {p \in trips \X trips : p[2] \in matching_trips(user, p[1])}

\* detect_overlaps_for_user(user): the table afterwards and the rows created.
detect_overlaps_for_user(user) ==
    IF user = Anonymous \/ user_trips_of(user) = {}
    THEN [table |-> overlaps, created |-> {}]
    ELSE create_overlaps(user_pairs(user), get_friends(user), overlaps, {})

\* detect_overlaps_for_trip: other_trips_query.
trip_candidates(trip) ==
    LET user == trip.user
        friend_ids == get_friends(user)
        visible_user_ids == visible_to(user) \ {user}
        visible_friend_ids == friend_ids \cap visible_user_ids
        min_end_date == Max(trip.start_date, today)
    IN IF visible_friend_ids # {} /\ trip.visibility_status = "open_to_friends"
       THEN {o \in trips :
                /\ o.user \in visible_friend_ids
                /\ o.visibility_status \in OpenStatuses
                /\ o.destination = trip.destination
                /\ o.start_date <= trip.end_date
                /\ o.end_date >= min_end_date
                /\ o.is_active}
       ELSE IF trip.visibility_status = "looking_for_partners"
       THEN {o \in trips :
                /\ \/ (o.user \in visible_friend_ids /\ o.visibility_status \in OpenStatuses)
                   \/ (o.user \in visible_user_ids
                       /\ o.visibility_status = "looking_for_partners")
                /\ o.destination = trip.destination
                /\ o.start_date <= trip.end_date
                /\ o.end_date >= min_end_date
                /\ o.is_active}
       ELSE {}

\* detect_overlaps_for_trip(trip): the table afterwards and the rows created.
detect_overlaps_for_trip(trip) ==
    IF \/ ~trip.is_active
       \/ trip.visibility_status = "full_private"
       \/ trip.end_date < today
    THEN [table |-> overlaps, created |-> {}]
    ELSE create_overlaps({<<trip, o>> : o \in trip_candidates(trip)},
                         get_friends(trip.user), overlaps, {})

\* get_overlaps_for_user / TripOverlapViewSet.get_queryset: the rows listed for a user.
get_overlaps_for_user(user, include_dismissed) ==
    {o \in overlaps :
        /\ (o.user1 = user \/ o.user2 = user)
        /\ o.overlap_end_date >= today
        /\ \/ include_dismissed
           \/ ~ \/ (o.user1 = user /\ o.user1_dismissed)
                \/ (o.user2 = user /\ o.user2_dismissed)}

\* cleanup_expired_overlaps: the rows it deletes.
expired_overlaps_inclusive == {o \in overlaps : o.overlap_end_date <= today - EXPIRY_DAYS}

expired_overlaps == {o \in overlaps : o.overlap_end_date < today - EXPIRY_DAYS}

----------------------------------------------------------------------------
(* The store under sequential requests *)

NoRequest == [op |-> "none"]

NoRun == [op |-> "none", arg |-> "", rows |-> {}, returned |-> 0,
          unchanged |-> TRUE, rerun_of |-> -1]

\* What the last detection or cleanup run did, when the store has not been written
\* by another operation since: the rows it created or deleted, the value
\* it returned, whether it left the table as it was, and, when the run before it was
\* the same call on the same store, the value that run returned (-1 otherwise).
Ran(op, arg, rows, returned, table) ==
    [op |-> op, arg |-> arg, rows |-> rows, returned |-> returned,
     unchanged |-> (table = overlaps),
     rerun_of |-> IF log.op = op /\ log.arg = arg THEN log.returned ELSE -1]

Written == NoRun

Init ==
    /\ today = 1
    /\ users = [u \in {"a", "b"} |-> NewUser]
    /\ trips = {}
    /\ friendships \in {{}, {[requester |-> "a", addressee |-> "b", status |-> "accepted"]}}
    /\ blocks = {}
    /\ overlaps = {}
    /\ unique_pair = FALSE
    /\ sessions = {}
    /\ notifications = << >>
    /\ procs = << >>
    /\ log = Written
    /\ req = NoRequest

\* TripViewSet.create with TripSerializer.validate
CreateTrip(user, id, destination, start_date, end_date, visibility_status) ==
    /\ id \in TripIdsOf[user]
    /\ ~ \E t \in trips : t.id = id
    /\ end_date >= start_date
    /\ start_date >= today
    /\ ~ \E t \in trips : /\ t.user = user /\ t.destination = destination /\ t.is_active
                          /\ t.start_date <= end_date /\ t.end_date >= start_date
    /\ trips' = trips \cup {NewTrip(id, user, destination, start_date, end_date,
                                    visibility_status)}
    /\ log' = Written
    /\ UNCHANGED <<today, users, friendships, blocks, overlaps, unique_pair, sessions,
                   notifications, procs, req>>

\* TripViewSet.partial_update with TripUpdateSerializer.validate, changing the dates
UpdateTripDates(id, start_date, end_date) ==
    /\ \E t \in trips : t.id = id
    /\ LET trip == TripById(id) IN
        /\ <<start_date, end_date>> # <<trip.start_date, trip.end_date>>
        /\ end_date >= start_date
        /\ ~ \E t \in trips : /\ t.user = trip.user /\ t.destination = trip.destination
                              /\ t.is_active
                              /\ t.start_date <= end_date /\ t.end_date >= start_date
                              /\ t.id # id
        /\ trips' = (trips \ {trip}) \cup
                    {[trip EXCEPT !.start_date = start_date, !.end_date = end_date]}
    /\ log' = Written
    /\ UNCHANGED <<today, users, friendships, blocks, overlaps, unique_pair, sessions,
                   notifications, procs, req>>

\* TripOverlapViewSet.detect_for_user / detect_all_overlaps, one user
DetectForUser(user) ==
    /\ LET run == detect_overlaps_for_user(user) IN
        /\ overlaps' = run.table
        /\ log' = Ran("detect_overlaps_for_user", user, run.created,
                      Cardinality(run.created), run.table)
    /\ UNCHANGED <<today, users, trips, friendships, blocks, unique_pair, sessions,
                   notifications, procs, req>>

\* detect_overlaps_for_new_trip -> OverlapEngine.detect_overlaps_for_trip
DetectForTrip(id) ==
    /\ \E t \in trips : t.id = id
    /\ LET run == detect_overlaps_for_trip(TripById(id)) IN
        /\ overlaps' = run.table
        /\ log' = Ran("detect_overlaps_for_trip", id, run.created,
                      Cardinality(run.created), run.table)
    /\ UNCHANGED <<today, users, trips, friendships, blocks, unique_pair, sessions,
                   notifications, procs, req>>

\* block_user, POST
BlockUser(user, blocked_user) ==
    /\ blocked_user # user
    /\ <<user, blocked_user>> \notin blocks
    /\ blocks' = blocks \cup {<<user, blocked_user>>}
    /\ sessions' = cancel_sessions(sessions, user, blocked_user)
    /\ log' = Written
    /\ req' = NoRequest
    /\ UNCHANGED <<today, users, trips, friendships, overlaps, unique_pair, notifications,
                   procs>>

\* block_user, DELETE
UnblockUser(user, blocked_user) ==
    /\ <<user, blocked_user>> \in blocks
    /\ blocks' = blocks \ {<<user, blocked_user>>}
    /\ log' = Written
    /\ req' = NoRequest
    /\ UNCHANGED <<today, users, trips, friendships, overlaps, unique_pair, sessions,
                   notifications, procs>>

Next ==
    \/ \E id \in {"t1"}, s \in Days, e \in Days, v \in OpenStatuses :
          CreateTrip("a", id, "d1", s, e, v)
    \/ \E id \in {"t2"}, d \in Destinations, s \in Days, e \in Days, v \in OpenStatuses :
          CreateTrip("b", id, d, s, e, v)
    \/ \E id \in {"t1", "t2", "t3"}, s \in Days, e \in Days : UpdateTripDates(id, s, e)
    \/ \E u \in UserIds : DetectForUser(u)
    \/ \E id \in {"t1", "t2", "t3"} : DetectForTrip(id)
    \/ \E u \in UserIds, b \in UserIds : BlockUser(u, b)
    \/ \E u \in UserIds, b \in UserIds : UnblockUser(u, b)

Spec == Init /\ [][Next]_vars

----------------------------------------------------------------------------
(* Claims settled on the store under sequential requests *)

\* The two users of a trip_overlaps row.
Parties(o) == {o.user1, o.user2}

Blocked(a, b) == <<a, b>> \in blocks \/ <<b, a>> \in blocks

\* C3, as stated: while a block exists between a and b (either direction), no
\* detection run creates an overlap pairing them and the overlap listing of a
\* holds no overlap whose other party is b.
C3_BlockHidesOverlaps ==
    \A a \in UserIds, b \in UserIds :
        (a # b /\ Blocked(a, b)) =>
            /\ \A o \in log.rows : Parties(o) # {a, b}
            /\ \A o \in get_overlaps_for_user(a, FALSE) : Parties(o) # {a, b}

\* C4: a second detect_overlaps_for_trip(t) right after the first, with the store
\* untouched in between, creates no overlap, returns an empty list and leaves
\* the trip_overlaps table as the first run left it.
C4_RerunCreatesNothing ==
    (log.op = "detect_overlaps_for_trip" /\ log.rerun_of >= 0) =>
        (log.rows = {} /\ log.returned = 0 /\ log.unchanged)

C4_Witness ==
    /\ log.op = "detect_overlaps_for_trip"
    /\ log.rerun_of >= 1
    /\ \E o \in overlaps : o.trip1 = log.arg

\* C5, as stated: every persisted overlap has the destination of both of its
\* trips, and its dates are the non-empty intersection of the trips' current
\* date ranges.
C5_OverlapMatchesTrips ==
    \A o \in overlaps :
        LET t1 == TripById(o.trip1)
            t2 == TripById(o.trip2)
        IN /\ t1.destination = o.overlap_destination
           /\ t2.destination = o.overlap_destination
           /\ o.overlap_start_date = Max(t1.start_date, t2.start_date)
           /\ o.overlap_end_date = Min(t1.end_date, t2.end_date)
           /\ o.overlap_start_date <= o.overlap_end_date

----------------------------------------------------------------------------
(* Detection runs in flight: each run evaluates its candidate query, then for  *)
(* each pair checks for an existing row and, in a later statement, creates one *)

ProcIds == {"p1", "p2"}

Idle == [pc |-> "idle", op |-> "none", arg |-> "", all |-> {}, pairs |-> {},
         friend_ids |-> {}, cur |-> << >>, created |-> {}, failed |-> {}]

\* A run record entering the loop over `pairs`.
Entering(op, arg, pairs, friend_ids) ==
    [pc |-> "loop", op |-> op, arg |-> arg, all |-> pairs, pairs |-> pairs,
     friend_ids |-> friend_ids, cur |-> << >>, created |-> {}, failed |-> {}]

\* except Exception: log the error and `continue` with the next pair.
after_create_error_propagates(pr) ==
    [pr EXCEPT !.pc = "raised", !.cur = << >>, !.failed = @ \cup {pr.cur}]

after_create_error(pr) ==
    [pr EXCEPT !.pc = "loop", !.cur = << >>, !.failed = @ \cup {pr.cur}]

\* A run enters its loop: the early returns are taken and the queries evaluated.
StartUserRun(p, user) ==
    /\ procs[p].pc = "idle"
    /\ procs' = [procs EXCEPT ![p] =
                    Entering("detect_overlaps_for_user", user,
                             IF user_trips_of(user) = {} THEN {} ELSE user_pairs(user),
                             get_friends(user))]
    /\ UNCHANGED <<today, users, trips, friendships, blocks, overlaps, unique_pair, sessions,
                   notifications, log, req>>

StartTripRun(p, id) ==
    /\ procs[p].pc = "idle"
    /\ \E t \in trips : t.id = id
    /\ LET trip == TripById(id) IN
        procs' = [procs EXCEPT ![p] =
                    Entering("detect_overlaps_for_trip", id,
                             IF \/ ~trip.is_active
                                \/ trip.visibility_status = "full_private"
                                \/ trip.end_date < today
                             THEN {}
                             ELSE {<<trip, o>> : o \in trip_candidates(trip)},
                             get_friends(trip.user))]
    /\ UNCHANGED <<today, users, trips, friendships, blocks, overlaps, unique_pair, sessions,
                   notifications, log, req>>

\* The exists() query for the next pair; `continue` when a row is found.
CheckExisting(p) ==
    /\ procs[p].pc = "loop"
    /\ \E pair \in procs[p].pairs :
        procs' = [procs EXCEPT ![p] =
                    IF overlap_exists(overlaps, pair[1].id, pair[2].id)
                    THEN [@ EXCEPT !.pairs = @ \ {pair}]
                    ELSE [@ EXCEPT !.pairs = @ \ {pair}, !.pc = "create", !.cur = pair]]
    /\ UNCHANGED <<today, users, trips, friendships, blocks, overlaps, unique_pair, sessions,
                   notifications, log, req>>

\* TripOverlap.objects.create inside transaction.atomic(); an IntegrityError is
\* caught and the loop continues.
CreateOverlap(p) ==
    /\ procs[p].pc = "create"
    /\ LET pr == procs[p]
           row == new_overlap(overlaps, pr.cur[1], pr.cur[2], pr.friend_ids)
       IN IF create_raises(overlaps, row)
          THEN /\ overlaps' = overlaps
               /\ procs' = [procs EXCEPT ![p] = after_create_error(pr)]
          ELSE /\ overlaps' = overlaps \cup {row}
               /\ procs' = [procs EXCEPT ![p] =
                              [@ EXCEPT !.pc = "loop", !.cur = << >>,
                                        !.created = @ \cup {row}]]
    /\ UNCHANGED <<today, users, trips, friendships, blocks, unique_pair, sessions,
                   notifications, log, req>>

\* return new_overlaps
FinishRun(p) ==
    /\ procs[p].pc = "loop"
    /\ procs[p].pairs = {}
    /\ procs' = [procs EXCEPT ![p] = [@ EXCEPT !.pc = "done"]]
    /\ UNCHANGED <<today, users, trips, friendships, blocks, overlaps, unique_pair, sessions,
                   notifications, log, req>>

\* Three users with a trip each to the same destination in overlapping dates.
InitConc ==
    /\ today = 1
    /\ users = [u \in {"a", "b", "c"} |-> NewUser]
    /\ \E v \in OpenStatuses, e \in Days :
        trips = {NewTrip("t1", "a", "d1", 1, MaxDay, "looking_for_partners"),
                 NewTrip("t2", "b", "d1", 1, e, v),
                 NewTrip("t3", "c", "d1", MaxDay, MaxDay, "looking_for_partners")}
    /\ friendships \in {{}, {[requester |-> "a", addressee |-> "b", status |-> "accepted"]}}
    /\ blocks = {}
    /\ overlaps = {}
    /\ unique_pair \in BOOLEAN
    /\ sessions = {}
    /\ notifications = << >>
    /\ procs = [p \in ProcIds |-> Idle]
    /\ log = NoRun
    /\ req = NoRequest

NextConc ==
    \/ \E p \in ProcIds, u \in UserIds : StartUserRun(p, u)
    \/ \E p \in ProcIds, id \in {"t1", "t2", "t3"} : StartTripRun(p, id)
    \/ \E p \in ProcIds : CheckExisting(p)
    \/ \E p \in ProcIds : CreateOverlap(p)
    \/ \E p \in ProcIds : FinishRun(p)

SpecConc == InitConc /\ [][NextConc]_vars

\* C1, as stated: at most one trip_overlaps row per unordered pair of trips, also
\* while two detection runs that cover the same pair interleave.
C1_OneOverlapPerPair ==
    \A o1 \in overlaps, o2 \in overlaps :
        {o1.trip1, o1.trip2} = {o2.trip1, o2.trip2} => o1 = o2

\* C12: when the insert for a pair fails, the run does not end in an error: it
\* goes on with the remaining pairs, so that a finished run has dealt with every
\* pair of its candidate query (each has a row in the table), and the rows it
\* returns are rows of the table none of which is for a pair whose insert failed.
C12_InsertFailureSkipsPair ==
    \A p \in ProcIds :
        /\ procs[p].pc # "raised"
        /\ \A f \in procs[p].failed :
              ~ \E r \in procs[p].created : r.trip1 = f[1].id /\ r.trip2 = f[2].id
        /\ procs[p].created \subseteq overlaps
        /\ procs[p].pc = "done" =>
              /\ procs[p].pairs = {}
              /\ \A pair \in procs[p].all : overlap_exists(overlaps, pair[1].id, pair[2].id)

\* A finished run whose insert for one pair failed and which created the
\* overlap of another pair.
C12_Witness ==
    \E p \in ProcIds :
        /\ procs[p].pc = "done"
        /\ procs[p].failed # {}
        /\ procs[p].created # {}

----------------------------------------------------------------------------
(* Expiry: the daily task runs detection and cleanup_expired_overlaps as the days pass *)

\* OverlapEngine.cleanup_expired_overlaps
CleanupExpired ==
    /\ overlaps' = overlaps \ expired_overlaps
    /\ log' = Ran("cleanup_expired_overlaps", "", expired_overlaps,
                  Cardinality(expired_overlaps), overlaps \ expired_overlaps)
    /\ UNCHANGED <<today, users, trips, friendships, blocks, unique_pair, sessions,
                   notifications, procs, req>>

\* A day passes.
AdvanceDay ==
    /\ today < MaxDay + EXPIRY_DAYS + 2
    /\ today' = today + 1
    /\ log' = Written
    /\ UNCHANGED <<users, trips, friendships, blocks, overlaps, unique_pair, sessions,
                   notifications, procs, req>>

InitCleanup ==
    /\ today = 1
    /\ users = [u \in {"a", "b", "c"} |-> NewUser]
    /\ \E e \in Days :
        trips = {NewTrip("t1", "a", "d1", 1, MaxDay, "looking_for_partners"),
                 NewTrip("t2", "b", "d1", 1, 1, "looking_for_partners"),
                 NewTrip("t3", "c", "d1", 1, e, "looking_for_partners")}
    /\ friendships = {}
    /\ blocks = {}
    /\ overlaps = {}
    /\ unique_pair = FALSE
    /\ sessions = {}
    /\ notifications = << >>
    /\ procs = << >>
    /\ log = NoRun
    /\ req = NoRequest

NextCleanup ==
    \/ \E u \in UserIds : DetectForUser(u)
    \/ CleanupExpired
    \/ AdvanceDay

SpecCleanup == InitCleanup /\ [][NextCleanup]_vars

----------------------------------------------------------------------------
(* MatchingService *)

\* _get_candidates
get_candidates_unverified(user, trip) ==
    {c \in visible_to(user) :
        /\ \E t \in trips : /\ t.user = c /\ t.is_active
                            /\ t.start_date <= trip.end_date
                            /\ t.end_date >= trip.start_date
        /\ c # user}

get_candidates(user, trip) ==
    {c \in visible_to(user) :
        /\ \E t \in trips : /\ t.user = c /\ t.is_active
                            /\ t.start_date <= trip.end_date
                            /\ t.end_date >= trip.start_date
        /\ users[c].email_verified
        /\ c # user}

\* _get_candidate_trip: the queryset .first() takes from, in Trip.Meta.ordering
candidate_trips(candidate, trip) ==
    {t \in trips : /\ t.user = candidate /\ t.is_active
                   /\ t.start_date <= trip.end_date
                   /\ t.end_date >= trip.start_date
                   /\ t.destination = trip.destination}

get_candidate_trip(candidate, trip) ==
    CHOOSE t \in candidate_trips(candidate, trip) :
        \A o \in candidate_trips(candidate, trip) : t.start_date <= o.start_date

\* _score_location
score_location_ignores_crags(trip, candidate_trip) ==
    IF trip.destination # candidate_trip.destination THEN 0 ELSE 25

score_location(trip, candidate_trip) ==
    IF trip.destination # candidate_trip.destination THEN 0
    ELSE IF trip.preferred_crags = {} \/ candidate_trip.preferred_crags = {} THEN 25
    ELSE IF trip.preferred_crags \cap candidate_trip.preferred_crags # {} THEN 30
    ELSE 20

\* _score_date_overlap: the score and the overlap details
score_date_overlap(trip, candidate_trip) ==
    LET overlap_start == Max(trip.start_date, candidate_trip.start_date)
        overlap_end == Min(trip.end_date, candidate_trip.end_date)
        overlap_days == (overlap_end - overlap_start) + 1
    IN IF overlap_start > overlap_end
       THEN [score |-> 0, details |-> [days |-> 0]]
       ELSE [score |-> Min(20, overlap_days * 4),
             details |-> [start |-> overlap_start, end |-> overlap_end,
                          days |-> overlap_days]]

ProfileDisciplines(u) == {d.discipline : d \in users[u].disciplines}

\* _score_discipline: the score and the disciplines handed on (their list order is
\* the iteration order of a Python set)
score_discipline(user, trip, candidate, candidate_trip) ==
    LET trip_disciplines == trip.preferred_disciplines
                                \cap candidate_trip.preferred_disciplines
        shared == (trip_disciplines \cap ProfileDisciplines(user))
                        \cap ProfileDisciplines(candidate)
    IN IF trip_disciplines = {} THEN [score |-> 0, shared |-> {}]
       ELSE IF shared # {} THEN [score |-> 20, shared |-> shared]
       ELSE [score |-> 5, shared |-> trip_disciplines]

\* _score_grade_compatibility; `first` is the discipline that heads the list
score_grade_compatibility(user, candidate, shared_disciplines, first) ==
    IF shared_disciplines = {} THEN 0
    ELSE LET discipline == IF first \in shared_disciplines THEN first
                           ELSE CHOOSE d \in shared_disciplines : TRUE
             mine == {d \in users[user].disciplines : d.discipline = discipline}
             theirs == {d \in users[candidate].disciplines : d.discipline = discipline}
         IN IF mine = {} \/ theirs = {} THEN 0
            ELSE LET my_profile == CHOOSE d \in mine : TRUE
                     their_profile == CHOOSE d \in theirs : TRUE
                     overlap_start == Max(my_profile.comfortable_grade_min_score,
                                          their_profile.comfortable_grade_min_score)
                     overlap_end == Min(my_profile.comfortable_grade_max_score,
                                        their_profile.comfortable_grade_max_score)
                     overlap_range == overlap_end - overlap_start
                     range_sum == (my_profile.comfortable_grade_max_score
                                     - my_profile.comfortable_grade_min_score)
                                  + (their_profile.comfortable_grade_max_score
                                     - their_profile.comfortable_grade_min_score)
                 IN IF overlap_start > overlap_end THEN 0
                    ELSE IF range_sum > 0
                         THEN (15 * 2 * overlap_range) \div range_sum
                         ELSE 0

RISK_SCORES == [conservative |-> 0, balanced |-> 1, aggressive |-> 2]

\* _score_risk_tolerance
score_risk_tolerance(user, candidate) ==
    LET d == RISK_SCORES[users[user].risk_tolerance]
                - RISK_SCORES[users[candidate].risk_tolerance]
        diff == IF d < 0 THEN -d ELSE d
    IN IF diff = 0 THEN 10 ELSE IF diff = 1 THEN 3 ELSE -10

\* _score_availability
score_availability(trip, candidate_trip) ==
    LET my_avail == {a \in trip.availability : a[2] # "rest"}
        their_avail == {a \in candidate_trip.availability : a[2] # "rest"}
    IN Min(5, Cardinality(my_avail \cap their_avail))

\* _calculate_match_score: the total and the overlap details
calculate_match_score(user, trip, candidate, candidate_trip, first) ==
    LET date == score_date_overlap(trip, candidate_trip)
        disc == score_discipline(user, trip, candidate, candidate_trip)
    IN [score |-> score_location(trip, candidate_trip)
                    + date.score
                    + disc.score
                    + score_grade_compatibility(user, candidate, disc.shared, first)
                    + score_risk_tolerance(user, candidate)
                    + score_availability(trip, candidate_trip),
        overlap_dates |-> date.details]

\* get_matches: `if score > 20`
passes_threshold_inclusive(score) == score >= MIN_MATCH_SCORE

passes_threshold(score) == score > MIN_MATCH_SCORE

\* list.sort(key=match_score, reverse=True): stable, highest score first
RECURSIVE sort_by_score(_)
sort_by_score(matches) ==
    IF matches = << >> THEN << >>
    ELSE LET n == Len(matches)
             front == sort_by_score(SubSeq(matches, 1, n - 1))
             m == matches[n]
             k == Cardinality({i \in 1..Len(front) : front[i].match_score >= m.match_score})
         IN SubSeq(front, 1, k) \o <<m>> \o SubSeq(front, k + 1, Len(front))

\* scored_matches[:limit]
slice(matches, limit) ==
    IF limit >= 0 THEN SubSeq(matches, 1, Min(limit, Len(matches)))
    ELSE SubSeq(matches, 1, Max(Len(matches) + limit, 0))

\* The scoring loop of get_matches over the candidates in the order the query
\* returned them.
RECURSIVE scored_matches(_, _, _, _)
scored_matches(user, trip, candidates, first) ==
    IF candidates = << >> THEN << >>
    ELSE LET candidate == Head(candidates)
             rest == scored_matches(user, trip, Tail(candidates), first)
         IN IF candidate_trips(candidate, trip) = {} THEN rest
            ELSE LET candidate_trip == get_candidate_trip(candidate, trip)
                     r == calculate_match_score(user, trip, candidate, candidate_trip, first)
                 IN IF passes_threshold(r.score)
                    THEN <<[user |-> candidate, trip |-> candidate_trip.id,
                            match_score |-> r.score,
                            overlap_dates |-> r.overlap_dates]>> \o rest
                    ELSE rest

\* MatchingService(user, trip, limit).get_matches()
get_matches(user, trip, limit, candidates, first) ==
    slice(sort_by_score(scored_matches(user, trip, candidates, first)), limit)

\* The orders in which a query without ORDER BY can return a set of rows.
Orderings(S) ==
    {q \in [1..Cardinality(S) -> S] : \A i, j \in 1..Cardinality(S) : q[i] = q[j] => i = j}

Disciplines == {"sport", "trad", "bouldering", "multipitch", "gym"}

----------------------------------------------------------------------------
(* GET /api/matches/ against a store of three users with one trip each *)

MaxLimit == 2

RequestLimits == (-1..MaxLimit) \cup {MAX_LIMIT + 1}

Mornings(start_date, end_date) == {<<d, "morning">> : d \in start_date..end_date}

\* MatchViewSet.list: the trip must be the requester's, the limit is capped above
\* only; the response carries what get_matches returned.
ListMatches(user, id, limit, candidates, first) ==
    /\ TripById(id).user = user
    /\ req' = [op |-> "get_matches", user |-> user, trip |-> id,
               limit |-> Min(limit, MAX_LIMIT), first |-> first,
               matches |-> get_matches(user, TripById(id), Min(limit, MAX_LIMIT),
                                       candidates, first)]
    /\ UNCHANGED <<today, users, trips, friendships, blocks, overlaps, unique_pair, sessions,
                   notifications, procs, log>>

InitMatch ==
    /\ today = 1
    /\ \E rb \in RiskTolerances, rc \in {"conservative", "aggressive"} :
          users = [u \in {"a", "b", "c"} |->
                      [NewUser EXCEPT !.risk_tolerance =
                          IF u = "a" THEN "conservative" ELSE IF u = "b" THEN rb ELSE rc]]
    /\ \E sb \in {1, MaxDay}, cb \in {{}, {"x"}, {"y"}}, ab \in BOOLEAN,
          dc \in Destinations :
          trips = {[NewTrip("t1", "a", "d1", 1, MaxDay, "looking_for_partners")
                        EXCEPT !.preferred_crags = {"x"},
                               !.availability = Mornings(1, MaxDay) \cup {<<1, "rest">>}],
                   [NewTrip("t2", "b", "d1", sb, MaxDay, "looking_for_partners")
                        EXCEPT !.preferred_crags = cb,
                               !.availability = IF ab THEN Mornings(sb, MaxDay) \cup {<<MaxDay, "rest">>}
                                                ELSE {}],
                   [NewTrip("t3", "c", dc, 1, 1, "looking_for_partners")
                        EXCEPT !.preferred_crags = {"x"}]}
    /\ friendships = {}
    /\ blocks = {}
    /\ overlaps = {}
    /\ unique_pair = FALSE
    /\ sessions = {}
    /\ notifications = << >>
    /\ procs = << >>
    /\ log = Written
    /\ req = NoRequest

NextMatch ==
    \/ \E user \in UserIds, id \in {"t1", "t2", "t3"}, limit \in RequestLimits,
          first \in {"sport"} :
          \E candidates \in Orderings(get_candidates(user, TripById(id))) :
              ListMatches(user, id, limit, candidates, first)
    \/ \E user, blocked_user \in {"a", "b"} : BlockUser(user, blocked_user)
    \/ \E user, blocked_user \in {"a", "b"} : UnblockUser(user, blocked_user)

SpecMatch == InitMatch /\ [][NextMatch]_vars

Range(f) == {f[i] : i \in DOMAIN f}

\* Every candidate of the answered request that has a trip at the destination,
\* with the score the scorer gives it.
Scored(user, id, first) ==
    {[user |-> c, match_score |->
            calculate_match_score(user, TripById(id), c,
                                  get_candidate_trip(c, TripById(id)), first).score] :
        c \in {u \in UserIds \ {user} :
                 /\ users[u].email_verified
                 /\ candidate_trips(u, TripById(id)) # {}}}

\* C2: when a Block row exists between two users in either direction, neither
\* appears in the matches returned for a trip of the other.
C2_BlockedNeverMatched ==
    req.op = "get_matches" =>
        \A i \in DOMAIN req.matches : ~Blocked(req.user, req.matches[i].user)

\* The request was answered for a user whom a candidate scoring above the
\* threshold had blocked, while the requester had not blocked the candidate,
\* and somebody else was returned.
C2_Witness ==
    /\ req.op = "get_matches"
    /\ req.matches # << >>
    /\ \E s \in Scored(req.user, req.trip, req.first) :
          /\ s.match_score > MIN_MATCH_SCORE
          /\ <<s.user, req.user>> \in blocks
          /\ <<req.user, s.user>> \notin blocks

\* C6: every returned match has a total score strictly above 20, and it is the
\* score the scorer gives that candidate; a candidate scoring 20 or less is
\* never returned.
C6_ScoreAboveThreshold ==
    req.op = "get_matches" =>
        /\ \A i \in DOMAIN req.matches :
              /\ req.matches[i].match_score > MIN_MATCH_SCORE
              /\ [user |-> req.matches[i].user, match_score |-> req.matches[i].match_score]
                    \in Scored(req.user, req.trip, req.first)
        /\ \A s \in Scored(req.user, req.trip, req.first) :
              s.match_score <= MIN_MATCH_SCORE =>
                  \A i \in DOMAIN req.matches : req.matches[i].user # s.user

\* A visible candidate scored exactly 20 and was left out while another
\* candidate was returned.
C6_Witness ==
    /\ req.op = "get_matches"
    /\ req.limit >= 1
    /\ req.matches # << >>
    /\ \E s \in Scored(req.user, req.trip, req.first) :
          /\ s.match_score = MIN_MATCH_SCORE
          /\ ~Blocked(req.user, s.user)

\* C7: for every limit the HTTP layer can pass (capped above at 50, not below),
\* the response has at most `limit` entries (none when the limit is below 1), in
\* non-increasing score order, and no qualifying candidate left out scores
\* strictly higher than a returned one.
C7_LimitSortedPrefix ==
    req.op = "get_matches" =>
        LET returned == {req.matches[i].user : i \in DOMAIN req.matches}
            qualifying == {s \in Scored(req.user, req.trip, req.first) :
                              /\ s.match_score > MIN_MATCH_SCORE
                              /\ s.user \in visible_to(req.user)}
        IN /\ Len(req.matches) <= Max(req.limit, 0)
           /\ \A i, j \in DOMAIN req.matches :
                 i < j => req.matches[i].match_score >= req.matches[j].match_score
           /\ \A s \in qualifying : s.user \notin returned =>
                 \A i \in DOMAIN req.matches : s.match_score <= req.matches[i].match_score

----------------------------------------------------------------------------
(* The two scorers applied to one pair of trips *)

MaxScoreDay == 7

Profile(discipline, min_score, max_score) ==
    [discipline |-> discipline, comfortable_grade_min_score |-> min_score,
     comfortable_grade_max_score |-> max_score]

\* MatchingService(user, trip)._calculate_match_score(candidate, candidate_trip)
ScoreMatch(user, id, candidate, candidate_id, first) ==
    /\ req = NoRequest
    /\ req' = [op |-> "_calculate_match_score", first |-> first,
               score |-> calculate_match_score(user, TripById(id), candidate,
                                               TripById(candidate_id), first).score]
    /\ UNCHANGED <<today, users, trips, friendships, blocks, overlaps, unique_pair, sessions,
                   notifications, procs, log>>

InitMatchScore ==
    /\ today = 1
    /\ \E ra \in {"conservative", "balanced"}, rb \in RiskTolerances,
          pa \in {{}, {Profile("sport", 10, 30), Profile("trad", 20, 20)}},
          pb \in {{}, {Profile("sport", 10, 30)}, {Profile("sport", 20, 50)},
                  {Profile("sport", 40, 50)}, {Profile("trad", 20, 20)}} :
          users = [a |-> [NewUser EXCEPT !.risk_tolerance = ra, !.disciplines = pa],
                   b |-> [NewUser EXCEPT !.risk_tolerance = rb, !.disciplines = pb]]
    /\ \E d \in Destinations, s \in 1..MaxScoreDay, cb \in {{}, {"x"}, {"y"}},
          db \in {{}, {"sport"}, {"sport", "trad"}}, ab \in BOOLEAN :
          \E e \in {s, MaxScoreDay} :
              trips = {[NewTrip("t1", "a", "d1", 1, MaxScoreDay - 2, "looking_for_partners")
                            EXCEPT !.preferred_crags = {"x"},
                                   !.preferred_disciplines = {"sport", "trad"},
                                   !.availability = Mornings(1, MaxScoreDay - 2)
                                        \cup {<<1, "afternoon">>, <<1, "rest">>}],
                       [NewTrip("t2", "b", d, s, e, "looking_for_partners")
                            EXCEPT !.preferred_crags = cb,
                                   !.preferred_disciplines = db,
                                   !.availability =
                                        IF ab THEN Mornings(s, e)
                                                    \cup {<<s, "afternoon">>, <<s, "rest">>}
                                        ELSE {}]}
    /\ friendships = {}
    /\ blocks = {}
    /\ overlaps = {}
    /\ unique_pair = FALSE
    /\ sessions = {}
    /\ notifications = << >>
    /\ procs = << >>
    /\ log = Written
    /\ req = NoRequest

NextMatchScore ==
    \E first \in {"sport", "trad"} : ScoreMatch("a", "t1", "b", "t2", first)

SpecMatchScore == InitMatchScore /\ [][NextMatchScore]_vars

\* C8: for every pair of trips with start <= end and every pair of users whose
\* discipline profiles have min score <= max score, the total the match scorer
\* returns lies in 0..100.
C8_MatchScoreInRange ==
    req.op = "_calculate_match_score" => req.score \in 0..100

\* OverlapEngine.calculate_overlap_score(trip1, trip2, are_friends)
ScoreOverlap(id1, id2, are_friends) ==
    /\ req = NoRequest
    /\ req' = [op |-> "calculate_overlap_score", are_friends |-> are_friends,
               score |-> calculate_overlap_score(TripById(id1), TripById(id2), are_friends)]
    /\ UNCHANGED <<today, users, trips, friendships, blocks, overlaps, unique_pair, sessions,
                   notifications, procs, log>>

InitOverlapScore ==
    /\ today = 1
    /\ users = [a |-> NewUser, b |-> NewUser]
    /\ \E d1 \in {{}, {"sport"}, {"sport", "trad"}}, c1 \in {{}, {"x"}},
          g1 \in {<<"", 0, 0>>, <<"yds", 2, 3>>},
          s \in 1..MaxScoreDay, d2 \in {{}, {"sport"}, {"trad"}},
          c2 \in {{}, {"x"}, {"y"}},
          g2 \in {<<"", 0, 0>>, <<"yds", 1, 1>>, <<"yds", 3, 4>>, <<"french", 2, 3>>} :
          \E e \in s..MaxScoreDay :
              trips = {[NewTrip("t1", "a", "d1", 1, MaxScoreDay - 2, "looking_for_partners")
                            EXCEPT !.preferred_disciplines = d1, !.preferred_crags = c1,
                                   !.grade_system = g1[1], !.min_grade = g1[2],
                                   !.max_grade = g1[3]],
                       [NewTrip("t2", "b", "d1", s, e, "looking_for_partners")
                            EXCEPT !.preferred_disciplines = d2, !.preferred_crags = c2,
                                   !.grade_system = g2[1], !.min_grade = g2[2],
                                   !.max_grade = g2[3]]}
    /\ friendships = {}
    /\ blocks = {}
    /\ overlaps = {}
    /\ unique_pair = FALSE
    /\ sessions = {}
    /\ notifications = << >>
    /\ procs = << >>
    /\ log = Written
    /\ req = NoRequest

NextOverlapScore ==
    \E are_friends \in BOOLEAN : ScoreOverlap("t1", "t2", are_friends)

SpecOverlapScore == InitOverlapScore /\ [][NextOverlapScore]_vars

\* C9: for every pair of trips with start <= end and either value of
\* are_friends, calculate_overlap_score returns a value in 0..100.
C9_OverlapScoreInRange ==
    req.op = "calculate_overlap_score" => req.score \in 0..100

----------------------------------------------------------------------------
(* Dismissal: OverlapEngine.dismiss_overlap and the dismiss / undismiss endpoints *)

\* The row with primary key overlap_id, as a set (empty when DoesNotExist).
overlap_by_id(table, overlap_id) == {o \in table : o.id = overlap_id}

\* dismiss_overlap(overlap_id, user): the table afterwards and the value returned.
dismiss_overlap_any_user(table, overlap_id, user) ==
    IF overlap_by_id(table, overlap_id) = {} THEN [table |-> table, result |-> FALSE]
    ELSE LET overlap == CHOOSE o \in overlap_by_id(table, overlap_id) : TRUE
         IN IF overlap.user1 = user
            THEN [table |-> (table \ {overlap}) \cup {[overlap EXCEPT !.user1_dismissed = TRUE]},
                  result |-> TRUE]
            ELSE [table |-> (table \ {overlap}) \cup {[overlap EXCEPT !.user2_dismissed = TRUE]},
                  result |-> TRUE]

dismiss_overlap(table, overlap_id, user) ==
    IF overlap_by_id(table, overlap_id) = {} THEN [table |-> table, result |-> FALSE]
    ELSE LET overlap == CHOOSE o \in overlap_by_id(table, overlap_id) : TRUE
         IN IF overlap.user1 = user
            THEN [table |-> (table \ {overlap}) \cup {[overlap EXCEPT !.user1_dismissed = TRUE]},
                  result |-> TRUE]
            ELSE IF overlap.user2 = user
            THEN [table |-> (table \ {overlap}) \cup {[overlap EXCEPT !.user2_dismissed = TRUE]},
                  result |-> TRUE]
            ELSE [table |-> table, result |-> FALSE]

\* Whether `user` is user1 or user2 of the row with this id.
IsParty(overlap_id, user) ==
    \E o \in overlap_by_id(overlaps, overlap_id) : user \in Parties(o)

\* Whether the row with this id carries the user's dismissed flag.
HasDismissed(table, overlap_id, user) ==
    \E o \in overlap_by_id(table, overlap_id) :
        \/ (o.user1 = user /\ o.user1_dismissed)
        \/ (o.user2 = user /\ o.user2_dismissed)

\* What a dismiss call did: who called on which id, whether the caller was a party
\* and had dismissed the row already, the outcome, and whether the table changed.
Dismissal(op, overlap_id, user, success, status, table) ==
    [op |-> op, overlap |-> overlap_id, user |-> user,
     party |-> IsParty(overlap_id, user),
     was_dismissed |-> HasDismissed(overlaps, overlap_id, user),
     success |-> success, status |-> status,
     unchanged |-> (table = overlaps),
     dismissed |-> HasDismissed(table, overlap_id, user)]

\* A direct call of OverlapEngine.dismiss_overlap(overlap_id, user)
DismissOverlap(overlap_id, user) ==
    /\ LET run == dismiss_overlap(overlaps, overlap_id, user) IN
        /\ overlaps' = run.table
        /\ req' = Dismissal("dismiss_overlap", overlap_id, user, run.result,
                            "returned", run.table)
    /\ log' = Written
    /\ UNCHANGED <<today, users, trips, friendships, blocks, unique_pair, sessions,
                   notifications, procs>>

\* PATCH /overlaps/{pk}/dismiss/: get_object() looks pk up in get_queryset(), a
\* miss is answered 404; then the service is called, 200 on True and 400 on False.
PatchDismiss(pk, user) ==
    /\ IF overlap_by_id(get_overlaps_for_user(user, FALSE), pk) = {}
       THEN /\ overlaps' = overlaps
            /\ req' = Dismissal("PATCH dismiss", pk, user, FALSE, "404", overlaps)
       ELSE LET run == dismiss_overlap(overlaps, pk, user) IN
            /\ overlaps' = run.table
            /\ req' = Dismissal("PATCH dismiss", pk, user, run.result,
                                IF run.result THEN "200" ELSE "400", run.table)
    /\ log' = Written
    /\ UNCHANGED <<today, users, trips, friendships, blocks, unique_pair, sessions,
                   notifications, procs>>

\* PATCH /overlaps/{pk}/undismiss/
PatchUndismiss(pk, user) ==
    /\ overlap_by_id(overlaps, pk) # {}
    /\ LET overlap == CHOOSE o \in overlap_by_id(overlaps, pk) : TRUE IN
        /\ user \in Parties(overlap)
        /\ overlaps' = (overlaps \ {overlap}) \cup
                {IF overlap.user1 = user THEN [overlap EXCEPT !.user1_dismissed = FALSE]
                 ELSE [overlap EXCEPT !.user2_dismissed = FALSE]}
    /\ log' = Written
    /\ req' = NoRequest
    /\ UNCHANGED <<today, users, trips, friendships, blocks, unique_pair, sessions,
                   notifications, procs>>

\* The primary keys requests name: rows detection can create and keys of no row.
OverlapIds == {<<x, y, 1>> : x \in {"t1", "t2"}, y \in {"t1", "t2"}}

\* Users a and b with trips that overlap at d1; c travels elsewhere.
InitDismiss ==
    /\ today = 1
    /\ users = [u \in {"a", "b", "c"} |-> NewUser]
    /\ \E e \in Days :
        trips = {NewTrip("t1", "a", "d1", 1, MaxDay, "looking_for_partners"),
                 NewTrip("t2", "b", "d1", 1, e, "looking_for_partners"),
                 NewTrip("t3", "c", "d2", 1, MaxDay, "looking_for_partners")}
    /\ friendships = {}
    /\ blocks = {}
    /\ overlaps = {}
    /\ unique_pair = FALSE
    /\ sessions = {}
    /\ notifications = << >>
    /\ procs = << >>
    /\ log = NoRun
    /\ req = NoRequest

NextDismiss ==
    \/ \E u \in UserIds : DetectForUser(u)
    \/ \E id \in OverlapIds, u \in UserIds : DismissOverlap(id, u)
    \/ \E id \in OverlapIds, u \in UserIds : PatchDismiss(id, u)
    \/ \E id \in OverlapIds, u \in UserIds : PatchUndismiss(id, u)

SpecDismiss == InitDismiss /\ [][NextDismiss]_vars

DismissOps == {"dismiss_overlap", "PATCH dismiss"}

\* C11: a dismiss by a user who is not a party of the overlap, or on an id of no
\* overlap, is answered with a failure (False, 404 or 400) and leaves the
\* trip_overlaps table exactly as it was.
C11_InvalidDismissRejected ==
    (req.op \in DismissOps /\ ~req.party) =>
        (~req.success /\ req.unchanged /\ req.status \in {"returned", "404", "400"})

\* A user who is no party called the service on an overlap that exists.
C11_Witness ==
    /\ req.op = "dismiss_overlap"
    /\ ~req.party
    /\ overlap_by_id(overlaps, req.overlap) # {}

\* C18, as stated: a party that repeats a dismiss which already succeeded, through
\* the service or through the PATCH endpoint, is told it succeeded and the
\* overlap stays as it was with the flag still set.
C18_DismissRetrySafe ==
    (req.op \in DismissOps /\ req.party /\ req.was_dismissed) =>
        (req.success /\ req.unchanged /\ req.dismissed)

----------------------------------------------------------------------------
(* Notification tasks: the Celery queue is `procs`, a sequence of the id lists *)
(* handed to send_high_score_overlap_notifications.delay                       *)

\* The loop body of both notification tasks for one overlap: both notifications
\* are created and then the row is marked sent; an exception from the notifier
\* is logged and the row is left alone.
notify_overlap_marks_failed(o, fails) == [o EXCEPT !.notification_sent = TRUE]

notify_overlap(o, fails) ==
    IF o.id \in fails THEN o ELSE [o EXCEPT !.notification_sent = TRUE]

\* The table after a task has gone through its target rows.
send_notifications(targets, fails) ==
    (overlaps \ targets) \cup {notify_overlap(o, fails) : o \in targets}

\* The (recipient, overlap id) pairs create_notification succeeds for in one pass
\* over `targets`: both users of a row the notifier does not fail on, and user1
\* alone when `partial`, the failure coming with the second call.
created_notifications(targets, fails, partial) ==
    {<<o.user1, o.id>> : o \in {t \in targets : t.id \notin fails \/ partial}}
        \cup {<<o.user2, o.id>> : o \in {t \in targets : t.id \notin fails}}

\* What a task run did: the table it found, the rows it went through, those for
\* which the notifier raised, and the notifications created per recipient.
Notified(op, before, targets, fails, partial) ==
    [op |-> op, before |-> before, targets |-> targets,
     failed |-> {o \in targets : o.id \in fails},
     notifications |-> created_notifications(targets, fails, partial)]

\* The number of trip_overlap notifications a recipient holds for an overlap.
notification_count(table, key) == IF key \in DOMAIN table THEN table[key] ELSE 0

\* The notifications table after the notifier has stored `created`.
store_notifications(table, created) ==
    [key \in DOMAIN table \cup created |->
        notification_count(table, key) + IF key \in created THEN 1 ELSE 0]

\* send_overlap_notifications: unsent overlaps that have not started yet
unsent_overlaps == {o \in overlaps : ~o.notification_sent /\ o.overlap_start_date >= today}

SendOverlapNotifications(fails, partial) ==
    /\ \A key \in created_notifications(unsent_overlaps, fails, partial) :
          notification_count(notifications, key) < MaxNotifications
    /\ overlaps' = send_notifications(unsent_overlaps, fails)
    /\ notifications' = store_notifications(notifications,
                            created_notifications(unsent_overlaps, fails, partial))
    /\ log' = Notified("send_overlap_notifications", overlaps, unsent_overlaps, fails, partial)
    /\ UNCHANGED <<today, users, trips, friendships, blocks, unique_pair, sessions,
                   procs, req>>

\* send_high_score_overlap_notifications(overlap_ids), taken from the queue
SendHighScoreNotifications(fails, partial) ==
    /\ procs # << >>
    /\ LET targets == {o \in overlaps : o.id \in Head(procs) /\ ~o.notification_sent} IN
        /\ \A key \in created_notifications(targets, fails, partial) :
              notification_count(notifications, key) < MaxNotifications
        /\ overlaps' = send_notifications(targets, fails)
        /\ notifications' = store_notifications(notifications,
                                created_notifications(targets, fails, partial))
        /\ log' = Notified("send_high_score_overlap_notifications", overlaps, targets,
                           fails, partial)
    /\ procs' = Tail(procs)
    /\ UNCHANGED <<today, users, trips, friendships, blocks, unique_pair, sessions, req>>

\* detect_overlaps_for_new_trip(trip_id): detection, then the high-score overlaps
\* are handed to the notification task; a failing .delay() is caught and reported
\* in the returned message.
DetectForNewTrip(id, enqueue_fails) ==
    /\ \E t \in trips : t.id = id
    /\ LET trip == TripById(id)
           run == IF ~trip.is_active \/ trip.visibility_status = "full_private"
                  THEN [table |-> overlaps, created |-> {}]
                  ELSE detect_overlaps_for_trip(trip)
           high_score_overlaps == {o \in run.created : o.overlap_score >= HIGH_SCORE}
       IN /\ overlaps' = run.table
          /\ procs' = IF high_score_overlaps # {} /\ ~enqueue_fails
                      THEN Append(procs, {o.id : o \in high_score_overlaps})
                      ELSE procs
          /\ log' = Notified("detect_overlaps_for_new_trip", run.table, high_score_overlaps,
                             IF enqueue_fails THEN {o.id : o \in high_score_overlaps} ELSE {},
                             FALSE)
    /\ UNCHANGED <<today, users, trips, friendships, blocks, unique_pair, sessions,
                   notifications, req>>

\* Friends a and b plan the same climbing at d1 (a high-score overlap); c's trip
\* there shares nothing but the dates.
InitNotify ==
    /\ today = 1
    /\ users = [u \in {"a", "b", "c"} |-> NewUser]
    /\ \E sb \in Days, ec \in Days :
        trips = {[NewTrip("t1", "a", "d1", 1, MaxDay, "looking_for_partners")
                    EXCEPT !.preferred_disciplines = {"sport"}, !.preferred_crags = {"x"},
                           !.grade_system = "yds", !.min_grade = 2, !.max_grade = 3],
                 [NewTrip("t2", "b", "d1", sb, MaxDay, "looking_for_partners")
                    EXCEPT !.preferred_disciplines = {"sport"}, !.preferred_crags = {"x"},
                           !.grade_system = "yds", !.min_grade = 2, !.max_grade = 3],
                 NewTrip("t3", "c", "d1", 1, ec, "looking_for_partners")}
    /\ friendships = {[requester |-> "a", addressee |-> "b", status |-> "accepted"]}
    /\ blocks = {}
    /\ overlaps = {}
    /\ unique_pair = FALSE
    /\ sessions = {}
    /\ notifications = << >>
    /\ procs = << >>
    /\ log = NoRun
    /\ req = NoRequest

NextNotify ==
    \/ \E id \in {"t1", "t2", "t3"}, enqueue_fails \in BOOLEAN :
          DetectForNewTrip(id, enqueue_fails)
    \/ \E fails \in SUBSET {o.id : o \in unsent_overlaps}, partial \in BOOLEAN :
          (partial => fails # {}) /\ SendOverlapNotifications(fails, partial)
    \/ \E fails \in SUBSET {o.id : o \in overlaps}, partial \in BOOLEAN :
          /\ procs # << >> /\ fails \subseteq Head(procs)
          /\ partial => fails # {}
          /\ SendHighScoreNotifications(fails, partial)

SpecNotify == InitNotify /\ [][NextNotify]_vars

NotifyTasks == {"send_overlap_notifications", "send_high_score_overlap_notifications",
                "detect_overlaps_for_new_trip"}

\* C13: after a notification task in which the notifier (or the enqueue) failed
\* for some overlaps, every overlap the task found is still in the table, the
\* failed ones exactly as they were and the others changed in notification_sent
\* at most; the overlaps of the run that did not fail have been marked sent.
C13_NotifierFailureKeepsOverlaps ==
    log.op \in NotifyTasks =>
        /\ \A o \in log.before :
              \E now \in overlaps :
                  /\ now.id = o.id
                  /\ [now EXCEPT !.notification_sent = o.notification_sent] = o
                  /\ o \in log.failed => now = o
        /\ log.op # "detect_overlaps_for_new_trip" =>
              \A o \in log.targets \ log.failed :
                  [o EXCEPT !.notification_sent = TRUE] \in overlaps

\* The periodic task met a notifier failure on one overlap and marked another sent.
C13_Witness ==
    /\ log.op = "send_overlap_notifications"
    /\ log.failed # {}
    /\ log.targets \ log.failed # {}

----------------------------------------------------------------------------
(* The candidate pool of detection: trips of every visibility, active and      *)
(* inactive, upcoming and past, of friends, strangers and hidden users         *)

InitPool ==
    /\ today \in {1, MaxDay}
    /\ \E vb \in BOOLEAN :
        users = [u \in {"a", "b", "c"} |->
                    [NewUser EXCEPT !.profile_visible = IF u = "b" THEN vb ELSE TRUE]]
    /\ \E v1 \in Visibilities, a1 \in BOOLEAN, v2 \in Visibilities,
          d2 \in {<<1, 1>>, <<1, MaxDay>>, <<MaxDay, MaxDay>>} :
        trips = {[NewTrip("t1", "a", "d1", 1, MaxDay, v1) EXCEPT !.is_active = a1],
                 NewTrip("t2", "b", "d1", d2[1], d2[2], v2),
                 NewTrip("t3", "c", "d1", MaxDay, MaxDay, "looking_for_partners")}
    /\ friendships \in {{}, {[requester |-> "a", addressee |-> "b", status |-> "accepted"]},
                            {[requester |-> "a", addressee |-> "b", status |-> "pending"]}}
    /\ blocks = {}
    /\ overlaps = {}
    /\ unique_pair = FALSE
    /\ sessions = {}
    /\ notifications = << >>
    /\ procs = << >>
    /\ log = NoRun
    /\ req = NoRequest

NextPool ==
    \/ \E u \in UserIds : DetectForUser(u)
    \/ \E id \in {"t1", "t2", "t3"} : DetectForTrip(id)

SpecPool == InitPool /\ [][NextPool]_vars

\* An accepted friendships row joins the two users, in either direction.
AcceptedFriends(a, b) ==
    \E f \in friendships :
        /\ f.status = "accepted"
        /\ {f.requester, f.addressee} = {a, b}

\* C14: every overlap detect_overlaps_for_user(u) creates pairs an active,
\* upcoming, not full_private trip of u with an active upcoming trip of another
\* user that is an accepted friend's open_to_friends / looking_for_partners trip
\* or a visible user's looking_for_partners trip.
C14_CandidatePool ==
    log.op = "detect_overlaps_for_user" =>
        \A o \in log.rows :
            LET mine == TripById(o.trip1)
                other == TripById(o.trip2)
            IN /\ mine.user = log.arg
               /\ mine.is_active /\ mine.end_date >= today
               /\ mine.visibility_status # "full_private"
               /\ other.user # log.arg
               /\ other.is_active /\ other.end_date >= today
               /\ other.visibility_status # "full_private"
               /\ \/ /\ AcceptedFriends(log.arg, other.user)
                     /\ other.visibility_status \in OpenStatuses
                  \/ /\ other.user \in visible_to(log.arg)
                     /\ other.visibility_status = "looking_for_partners"

\* A run paired the user's trip with a friend's open_to_friends trip.
C14_Witness ==
    /\ log.op = "detect_overlaps_for_user"
    /\ \E o \in log.rows : TripById(o.trip2).visibility_status = "open_to_friends"

\* The pairs of trips a set of created rows is for.
PairsOf(rows) == {{r.trip1, r.trip2} : r \in rows}

\* C15, as stated: for every eligible trip t of u the pairs detect_overlaps_for_trip(t)
\* creates overlaps for are, from the same store state, the pairs containing t
\* that detect_overlaps_for_user(u) creates overlaps for.
C15_TripRunEqualsUserRun ==
    \A t \in trips :
        (t.is_active /\ t.end_date >= today /\ t.visibility_status \in OpenStatuses) =>
            PairsOf(detect_overlaps_for_trip(t).created)
                = {p \in PairsOf(detect_overlaps_for_user(t.user).created) : t.id \in p}

\* C16: every overlap a detection run creates is for two trips whose date ranges
\* intersect, and carries start = max of the starts, end = min of the ends,
\* start <= end and days = end - start + 1 >= 1.
C16_CreatedDatesIntersect ==
    log.op \in {"detect_overlaps_for_user", "detect_overlaps_for_trip"} =>
        \A o \in log.rows :
            LET mine == TripById(o.trip1)
                other == TripById(o.trip2)
            IN /\ mine.start_date <= other.end_date /\ other.start_date <= mine.end_date
               /\ o.overlap_start_date = Max(mine.start_date, other.start_date)
               /\ o.overlap_end_date = Min(mine.end_date, other.end_date)
               /\ o.overlap_start_date <= o.overlap_end_date
               /\ o.overlap_days = (o.overlap_end_date - o.overlap_start_date) + 1
               /\ o.overlap_days >= 1

\* A run created an overlap while another candidate trip at the same destination
\* had dates apart from the user's trip.
C16_Witness ==
    /\ log.op = "detect_overlaps_for_user"
    /\ log.rows # {}
    /\ \E mine \in user_trips_of(log.arg), other \in other_trips_of(log.arg) :
          /\ mine.destination = other.destination
          /\ (mine.end_date < other.start_date \/ other.end_date < mine.start_date)

\* C20, as stated: no detection run creates an overlap between a user whose
\* profile_visible is false and another user v that v's overlap listing shows.
C20_HiddenUserNotListed ==
    \A h \in UserIds, v \in UserIds :
        (h # v /\ ~users[h].profile_visible) =>
            \A o \in log.rows :
                Parties(o) = {h, v} => o \notin get_overlaps_for_user(v, FALSE)

\* C26: no detection run creates an overlap in which an open_to_friends trip is
\* paired with a trip of a user who is not an accepted friend of its owner.
C26_OpenToFriendsOnlyWithFriends ==
    \A o \in log.rows :
        (\/ TripById(o.trip1).visibility_status = "open_to_friends"
         \/ TripById(o.trip2).visibility_status = "open_to_friends")
            => AcceptedFriends(o.user1, o.user2)

----------------------------------------------------------------------------
(* The date-overlap computations applied to two trips in either order *)

\* _score_date_overlap of the matching service with `id` as the service's trip
\* and `other_id` as the candidate trip, and the overlap engine's computation
\* with them as trip1 and trip2.
ApplyDateOverlap(id, other_id) ==
    /\ req' = [op |-> "date_overlap", trip |-> id, other |-> other_id,
               match |-> score_date_overlap(TripById(id), TripById(other_id)),
               overlap |-> overlap_window(TripById(id), TripById(other_id))]
    /\ UNCHANGED <<today, users, trips, friendships, blocks, overlaps, unique_pair, sessions,
                   notifications, procs, log>>

InitDates ==
    /\ today = 1
    /\ users = [a |-> NewUser, b |-> NewUser]
    /\ \E s1 \in 1..MaxScoreDay, s2 \in 1..MaxScoreDay :
          \E e1 \in s1..MaxScoreDay, e2 \in s2..MaxScoreDay :
              trips = {NewTrip("t1", "a", "d1", s1, e1, "looking_for_partners"),
                       NewTrip("t2", "b", "d1", s2, e2, "looking_for_partners")}
    /\ friendships = {}
    /\ blocks = {}
    /\ overlaps = {}
    /\ unique_pair = FALSE
    /\ sessions = {}
    /\ notifications = << >>
    /\ procs = << >>
    /\ log = NoRun
    /\ req = NoRequest

NextDates ==
    \E id \in {"t1", "t2"}, other_id \in {"t1", "t2"} :
        id # other_id /\ ApplyDateOverlap(id, other_id)

SpecDates == InitDates /\ [][NextDates]_vars

\* C17: the overlap start, end and day count (and the date score) the match
\* scorer computes for (A, B) are those it computes for (B, A), and likewise
\* for the overlap engine.
C17_DateOverlapSymmetric ==
    req.op = "date_overlap" =>
        /\ req.match = score_date_overlap(TripById(req.other), TripById(req.trip))
        /\ req.overlap = overlap_window(TripById(req.other), TripById(req.trip))

\* The computation was applied with the later-starting trip first, the trips
\* sharing some but not all of their days.
C17_Witness ==
    /\ req.op = "date_overlap"
    /\ TripById(req.trip).start_date > TripById(req.other).start_date
    /\ TripById(req.trip).end_date > TripById(req.other).end_date
    /\ req.match.score > 0
    /\ req.overlap.days >= 2

----------------------------------------------------------------------------
(* GET /api/matches/ over candidates that are unverified, hidden, inactive,   *)
(* elsewhere, or have two trips meeting the requester's                       *)

InitEligible ==
    /\ today = 1
    /\ \E ev \in BOOLEAN, pv \in BOOLEAN :
        users = [u \in {"a", "b", "c"} |->
                    IF u = "b" THEN [NewUser EXCEPT !.email_verified = ev,
                                                    !.profile_visible = pv]
                    ELSE NewUser]
    /\ \E d2 \in Destinations, a2 \in BOOLEAN, a4 \in BOOLEAN :
        trips = {NewTrip("t1", "a", "d1", 1, MaxDay, "looking_for_partners"),
                 [NewTrip("t2", "b", d2, 1, 1, "looking_for_partners")
                    EXCEPT !.is_active = a2],
                 [NewTrip("t4", "b", "d1", MaxDay, MaxDay, "looking_for_partners")
                    EXCEPT !.is_active = a4],
                 NewTrip("t3", "c", "d1", 1, 1, "looking_for_partners")}
    /\ friendships = {}
    /\ blocks = {}
    /\ overlaps = {}
    /\ unique_pair = FALSE
    /\ sessions = {}
    /\ notifications = << >>
    /\ procs = << >>
    /\ log = NoRun
    /\ req = NoRequest

NextEligible ==
    \E user \in UserIds, id \in {"t1", "t2", "t3", "t4"}, limit \in RequestLimits,
       first \in {"sport"} :
        \E candidates \in Orderings(get_candidates(user, TripById(id))) :
            ListMatches(user, id, limit, candidates, first)

SpecEligible == InitEligible /\ [][NextEligible]_vars

\* C19: every returned match is for a user other than the requester who is
\* email-verified and profile-visible, with a trip of that user that is active,
\* at the destination of the requester's trip and on dates intersecting it; no
\* user is returned twice.
C19_EligibleCandidates ==
    req.op = "get_matches" =>
        /\ \A i \in DOMAIN req.matches :
              LET candidate == req.matches[i].user
                  candidate_trip == TripById(req.matches[i].trip)
                  trip == TripById(req.trip)
              IN /\ candidate # req.user
                 /\ users[candidate].email_verified
                 /\ users[candidate].profile_visible
                 /\ candidate_trip.user = candidate
                 /\ candidate_trip.is_active
                 /\ candidate_trip.destination = trip.destination
                 /\ candidate_trip.start_date <= trip.end_date
                 /\ candidate_trip.end_date >= trip.start_date
        /\ \A i, j \in DOMAIN req.matches :
              req.matches[i].user = req.matches[j].user => i = j

\* A candidate with two active trips that both meet the requester's trip was
\* returned.
C19_Witness ==
    /\ req.op = "get_matches"
    /\ \E i \in DOMAIN req.matches :
          Cardinality(candidate_trips(req.matches[i].user, TripById(req.trip))) >= 2

----------------------------------------------------------------------------
(* _score_grade_compatibility over the comfortable grade ranges of two users *)

MaxGrade == 4

\* MatchingService(user, trip)._score_grade_compatibility(candidate, ['sport'])
ScoreGrade(user, candidate) ==
    /\ req = NoRequest
    /\ req' = [op |-> "_score_grade_compatibility", user |-> user, candidate |-> candidate,
               score |-> score_grade_compatibility(user, candidate, {"sport"}, "sport")]
    /\ UNCHANGED <<today, users, trips, friendships, blocks, overlaps, unique_pair, sessions,
                   notifications, procs, log>>

InitGrade ==
    /\ today = 1
    /\ \E min_a \in 0..MaxGrade, min_b \in 0..MaxGrade :
          \E max_a \in min_a..MaxGrade, max_b \in min_b..MaxGrade :
              users = [a |-> [NewUser EXCEPT !.disciplines = {Profile("sport", min_a, max_a)}],
                       b |-> [NewUser EXCEPT !.disciplines = {Profile("sport", min_b, max_b)}]]
    /\ trips = {}
    /\ friendships = {}
    /\ blocks = {}
    /\ overlaps = {}
    /\ unique_pair = FALSE
    /\ sessions = {}
    /\ notifications = << >>
    /\ procs = << >>
    /\ log = NoRun
    /\ req = NoRequest

NextGrade == ScoreGrade("a", "b")

SpecGrade == InitGrade /\ [][NextGrade]_vars

\* The integers n / d rounds to (both neighbours when n / d lies halfway).
Rounded(n, d) ==
    LET q == n \div d
        r == n % d
    IN IF 2 * r < d THEN {q} ELSE IF 2 * r > d THEN {q + 1} ELSE {q, q + 1}

\* C21, as stated: the grade component is 0 when the two comfortable ranges are
\* disjoint or the average range width is 0, and round(15 * overlapRange /
\* averageRange) otherwise.
C21_GradeScoreRounded ==
    req.op = "_score_grade_compatibility" =>
        LET mine == CHOOSE d \in users[req.user].disciplines : TRUE
            theirs == CHOOSE d \in users[req.candidate].disciplines : TRUE
            lo == Max(mine.comfortable_grade_min_score, theirs.comfortable_grade_min_score)
            hi == Min(mine.comfortable_grade_max_score, theirs.comfortable_grade_max_score)
            widths == (mine.comfortable_grade_max_score - mine.comfortable_grade_min_score)
                      + (theirs.comfortable_grade_max_score - theirs.comfortable_grade_min_score)
        IN IF lo > hi \/ widths = 0 THEN req.score = 0
           ELSE req.score \in Rounded(15 * 2 * (hi - lo), widths)

----------------------------------------------------------------------------
(* _score_location over the crag sets of two trips *)

Crags == {"x", "y", "z"}

\* MatchingService(user, trip)._score_location(candidate_trip)
ScoreLocation(id, candidate_id) ==
    /\ req = NoRequest
    /\ req' = [op |-> "_score_location", trip |-> id, candidate_trip |-> candidate_id,
               score |-> score_location(TripById(id), TripById(candidate_id))]
    /\ UNCHANGED <<today, users, trips, friendships, blocks, overlaps, unique_pair, sessions,
                   notifications, procs, log>>

InitLocation ==
    /\ today = 1
    /\ users = [a |-> NewUser, b |-> NewUser]
    /\ \E d \in Destinations, c1 \in SUBSET Crags, c2 \in SUBSET Crags :
          trips = {[NewTrip("t1", "a", "d1", 1, MaxDay, "looking_for_partners")
                        EXCEPT !.preferred_crags = c1],
                   [NewTrip("t2", "b", d, 1, MaxDay, "looking_for_partners")
                        EXCEPT !.preferred_crags = c2]}
    /\ friendships = {}
    /\ blocks = {}
    /\ overlaps = {}
    /\ unique_pair = FALSE
    /\ sessions = {}
    /\ notifications = << >>
    /\ procs = << >>
    /\ log = NoRun
    /\ req = NoRequest

NextLocation == ScoreLocation("t1", "t2")

SpecLocation == InitLocation /\ [][NextLocation]_vars

\* C22: the location component is 0 for different destinations; for the same
\* destination it is 30 when both crag sets are non-empty and intersect, 25 when
\* one of them is empty, and 20 when both are non-empty and disjoint.
C22_LocationScore ==
    req.op = "_score_location" =>
        LET trip == TripById(req.trip)
            other == TripById(req.candidate_trip)
            mine == trip.preferred_crags
            theirs == other.preferred_crags
        IN /\ trip.destination # other.destination => req.score = 0
           /\ trip.destination = other.destination =>
                /\ (mine # {} /\ theirs # {} /\ mine \cap theirs # {}) => req.score = 30
                /\ (mine = {} \/ theirs = {}) => req.score = 25
                /\ (mine # {} /\ theirs # {} /\ mine \cap theirs = {}) => req.score = 20

\* Both trips at one destination named crags and share none.
C22_Witness ==
    /\ req.op = "_score_location"
    /\ req.score = 20
    /\ TripById("t1").preferred_crags # {}
    /\ TripById("t2").preferred_crags # {}

----------------------------------------------------------------------------
(* Climbing sessions: SessionViewSet (climbing_sessions/views.py) *)

SessionIds == {"s1", "s2"}

\* SessionViewSet.get_queryset without query parameters: the sessions the
\* requesting user is a party of; get_object() answers 404 outside it.
session_queryset(table, user) ==
    {s \in table : s.inviter = user \/ s.invitee = user}

session_by_id(table, pk) == CHOOSE s \in table : s.id = pk

set_status(table, pk, status) ==
    {IF s.id = pk THEN [s EXCEPT !.status = status] ELSE s : s \in table}

\* CreateSessionSerializer.validate
validate_session(table, user, invitee_id, trip_id, proposed_date) ==
    /\ invitee_id \in visible_to(user)
    /\ invitee_id # user
    /\ \E t \in trips :
          /\ t.id = trip_id /\ t.user = user
          /\ t.start_date <= proposed_date /\ proposed_date <= t.end_date
    /\ ~ \E d \in table :
          /\ d.inviter = user /\ d.invitee = invitee_id
          /\ d.proposed_date = proposed_date
          /\ d.status \in {PENDING, ACCEPTED}

\* SessionViewSet.accept: the new table and the HTTP status of the response.
accept_session_any_status(table, pk, user) ==
    IF ~ \E s \in session_queryset(table, user) : s.id = pk
    THEN [table |-> table, code |-> 404]
    ELSE IF session_by_id(table, pk).invitee # user
    THEN [table |-> table, code |-> 403]
    ELSE [table |-> set_status(table, pk, ACCEPTED), code |-> 200]

accept_session(table, pk, user) ==
    IF ~ \E s \in session_queryset(table, user) : s.id = pk
    THEN [table |-> table, code |-> 404]
    ELSE IF session_by_id(table, pk).invitee # user
    THEN [table |-> table, code |-> 403]
    ELSE IF session_by_id(table, pk).status # PENDING
    THEN [table |-> table, code |-> 400]
    ELSE [table |-> set_status(table, pk, ACCEPTED), code |-> 200]

\* SessionViewSet.decline
decline_session(table, pk, user) ==
    IF ~ \E s \in session_queryset(table, user) : s.id = pk
    THEN [table |-> table, code |-> 404]
    ELSE IF session_by_id(table, pk).invitee # user
    THEN [table |-> table, code |-> 403]
    ELSE [table |-> set_status(table, pk, DECLINED), code |-> 200]

\* SessionViewSet.cancel
cancel_session(table, pk, user) ==
    IF ~ \E s \in session_queryset(table, user) : s.id = pk
    THEN [table |-> table, code |-> 404]
    ELSE IF user \notin {session_by_id(table, pk).inviter, session_by_id(table, pk).invitee}
    THEN [table |-> table, code |-> 403]
    ELSE [table |-> set_status(table, pk, CANCELLED), code |-> 200]

\* SessionViewSet.complete
complete_session(table, pk, user) ==
    IF ~ \E s \in session_queryset(table, user) : s.id = pk
    THEN [table |-> table, code |-> 404]
    ELSE IF user \notin {session_by_id(table, pk).inviter, session_by_id(table, pk).invitee}
    THEN [table |-> table, code |-> 403]
    ELSE [table |-> set_status(table, pk, COMPLETED), code |-> 200]

StatusOf(table, pk) ==
    IF \E s \in table : s.id = pk THEN session_by_id(table, pk).status ELSE "none"

\* What a session request did: who called which operation on which session, the
\* HTTP status of the response and the session's status before and after.
SessionResponse(op, pk, user, code, table) ==
    [op |-> op, pk |-> pk, user |-> user, code |-> code,
     invitee |-> IF \E s \in sessions : s.id = pk
                 THEN session_by_id(sessions, pk).invitee ELSE "none",
     inviter |-> IF \E s \in sessions : s.id = pk
                 THEN session_by_id(sessions, pk).inviter ELSE "none",
     before |-> StatusOf(sessions, pk), after |-> StatusOf(table, pk)]

\* SessionViewSet.create
CreateSession(id, user, invitee_id, trip_id, proposed_date) ==
    /\ ~ \E s \in sessions : s.id = id
    /\ IF validate_session(sessions, user, invitee_id, trip_id, proposed_date)
       THEN /\ sessions' = sessions \cup
                           {NewSession(id, user, invitee_id, trip_id, proposed_date)}
            /\ req' = SessionResponse("create", id, user, 201, sessions')
       ELSE /\ sessions' = sessions
            /\ req' = SessionResponse("create", id, user, 400, sessions)
    /\ UNCHANGED <<today, users, trips, friendships, blocks, overlaps, unique_pair,
                   notifications, procs, log>>

AcceptSession(pk, user) ==
    /\ LET r == accept_session(sessions, pk, user) IN
        /\ sessions' = r.table
        /\ req' = SessionResponse("accept", pk, user, r.code, r.table)
    /\ UNCHANGED <<today, users, trips, friendships, blocks, overlaps, unique_pair,
                   notifications, procs, log>>

DeclineSession(pk, user) ==
    /\ LET r == decline_session(sessions, pk, user) IN
        /\ sessions' = r.table
        /\ req' = SessionResponse("decline", pk, user, r.code, r.table)
    /\ UNCHANGED <<today, users, trips, friendships, blocks, overlaps, unique_pair,
                   notifications, procs, log>>

CancelSession(pk, user) ==
    /\ LET r == cancel_session(sessions, pk, user) IN
        /\ sessions' = r.table
        /\ req' = SessionResponse("cancel", pk, user, r.code, r.table)
    /\ UNCHANGED <<today, users, trips, friendships, blocks, overlaps, unique_pair,
                   notifications, procs, log>>

CompleteSession(pk, user) ==
    /\ LET r == complete_session(sessions, pk, user) IN
        /\ sessions' = r.table
        /\ req' = SessionResponse("complete", pk, user, r.code, r.table)
    /\ UNCHANGED <<today, users, trips, friendships, blocks, overlaps, unique_pair,
                   notifications, procs, log>>

InitSessions ==
    /\ today = 1
    /\ users = [u \in {"a", "b", "c"} |-> NewUser]
    /\ trips = {NewTrip("t1", "a", "d1", 1, MaxDay, "looking_for_partners")}
    /\ friendships = {}
    /\ blocks = {}
    /\ overlaps = {}
    /\ unique_pair = FALSE
    /\ sessions = {}
    /\ notifications = << >>
    /\ procs = << >>
    /\ log = Written
    /\ req = NoRequest

NextSessions ==
    \/ \E id \in SessionIds, u \in UserIds, i \in {"a", "b"}, d \in Days :
          CreateSession(id, u, i, "t1", d)
    \/ \E pk \in SessionIds, u \in UserIds : AcceptSession(pk, u)
    \/ \E pk \in SessionIds, u \in UserIds : DeclineSession(pk, u)
    \/ \E pk \in SessionIds, u \in UserIds : CancelSession(pk, u)
    \/ \E pk \in SessionIds, u \in UserIds : CompleteSession(pk, u)
    \/ \E u \in {"a", "b"}, b \in {"a", "b"} : BlockUser(u, b)
    \/ \E u \in {"a", "b"}, b \in {"a", "b"} : UnblockUser(u, b)

SpecSessions == InitSessions /\ [][NextSessions]_vars

Terminal == {DECLINED, CANCELLED, COMPLETED}

\* C29: a session whose status is declined, cancelled or completed keeps that
\* status in every step of accept, decline, cancel, complete and block_user.
C29_TerminalStatusesStay ==
    [][\A s \in sessions :
          s.status \in Terminal => StatusOf(sessions', s.id) = s.status]_vars

----------------------------------------------------------------------------
(* block_user interleaved with session create and accept requests.  No view   *)
(* runs in a transaction or takes a lock, so each query of a handler is a step *)
(* of its own: the serializer's checks and the INSERT of create, get_object()  *)
(* and the save() of accept, get_or_create() and the UPDATE of block_user.     *)

NoCall == [pc |-> "idle", op |-> "none", user |-> "", other |-> "", date |-> 0,
           row |-> << >>]

\* CreateSessionSerializer.validate has passed; Session.objects.create is next.
StartCreateSession(p, user, invitee_id, trip_id, proposed_date) ==
    /\ procs[p].pc = "idle"
    /\ validate_session(sessions, user, invitee_id, trip_id, proposed_date)
    /\ procs' = [procs EXCEPT ![p] = [pc |-> "create", op |-> "create", user |-> user,
                                      other |-> invitee_id, date |-> proposed_date,
                                      row |-> << >>]]
    /\ UNCHANGED <<today, users, trips, friendships, blocks, overlaps, unique_pair,
                   sessions, notifications, log, req>>

\* Session.objects.create(..., status='pending')
InsertSession(p, id) ==
    /\ procs[p].pc = "create"
    /\ ~ \E s \in sessions : s.id = id
    /\ sessions' = sessions \cup
                   {NewSession(id, procs[p].user, procs[p].other, "t1", procs[p].date)}
    /\ procs' = [procs EXCEPT ![p] = NoCall]
    /\ UNCHANGED <<today, users, trips, friendships, blocks, overlaps, unique_pair,
                   notifications, log, req>>

\* accept: get_object() and both checks have passed on the row as read.
StartAcceptSession(p, pk, user) ==
    /\ procs[p].pc = "idle"
    /\ accept_session(sessions, pk, user).code = 200
    /\ procs' = [procs EXCEPT ![p] = [pc |-> "save", op |-> "accept", user |-> user,
                                      other |-> "", date |-> 0,
                                      row |-> session_by_id(sessions, pk)]]
    /\ UNCHANGED <<today, users, trips, friendships, blocks, overlaps, unique_pair,
                   sessions, notifications, log, req>>

\* session.status = 'accepted'; session.save(): every column of the row as read.
SaveAcceptedSession(p) ==
    /\ procs[p].pc = "save"
    /\ sessions' = {s \in sessions : s.id # procs[p].row.id} \cup
                   {[procs[p].row EXCEPT !.status = ACCEPTED]}
    /\ procs' = [procs EXCEPT ![p] = NoCall]
    /\ UNCHANGED <<today, users, trips, friendships, blocks, overlaps, unique_pair,
                   notifications, log, req>>

\* block_user: Block.objects.get_or_create(blocker, blocked)
StartBlockUser(p, user, blocked_user) ==
    /\ procs[p].pc = "idle"
    /\ blocked_user # user
    /\ blocks' = blocks \cup {<<user, blocked_user>>}
    /\ procs' = [procs EXCEPT ![p] = [pc |-> "cancel", op |-> "block_user", user |-> user,
                                      other |-> blocked_user, date |-> 0, row |-> << >>]]
    /\ UNCHANGED <<today, users, trips, friendships, overlaps, unique_pair, sessions,
                   notifications, log, req>>

\* block_user: the UPDATE cancelling the pending and accepted sessions.
FinishBlockUser(p) ==
    /\ procs[p].pc = "cancel"
    /\ sessions' = cancel_sessions(sessions, procs[p].user, procs[p].other)
    /\ procs' = [procs EXCEPT ![p] = NoCall]
    /\ UNCHANGED <<today, users, trips, friendships, blocks, overlaps, unique_pair,
                   notifications, log, req>>

InitSessionsConc ==
    /\ today = 1
    /\ users = [u \in {"a", "b"} |-> NewUser]
    /\ trips = {NewTrip("t1", "a", "d1", 1, MaxDay, "looking_for_partners")}
    /\ friendships = {}
    /\ blocks = {}
    /\ overlaps = {}
    /\ unique_pair = FALSE
    /\ sessions = {}
    /\ notifications = << >>
    /\ procs = [p \in ProcIds |-> NoCall]
    /\ log = Written
    /\ req = NoRequest

NextSessionsConc ==
    \E p \in ProcIds :
        \/ \E d \in Days : StartCreateSession(p, "a", "b", "t1", d)
        \/ \E id \in SessionIds : InsertSession(p, id)
        \/ \E pk \in SessionIds : StartAcceptSession(p, pk, "b")
        \/ SaveAcceptedSession(p)
        \/ \E u \in UserIds, b \in UserIds : StartBlockUser(p, u, b)
        \/ FinishBlockUser(p)

SpecSessionsConc == InitSessionsConc /\ [][NextSessionsConc]_vars

Blocking(a, b) == \E p \in ProcIds : procs[p].pc = "cancel" /\ procs[p].user = a
                                     /\ procs[p].other = b

\* C24: once block_user(a, b) has completed, while the Block row exists, no
\* session between a and b is pending or accepted.
C24_BlockLeavesNoOpenSession ==
    \A a \in UserIds, b \in UserIds :
        (<<a, b>> \in blocks /\ ~Blocking(a, b)) =>
            ~ \E s \in sessions : Between(s, a, b) /\ s.status \in {PENDING, ACCEPTED}

----------------------------------------------------------------------------
(* Dismiss, undismiss and the notification tasks on one overlap row, in flight *)
(* together: each reads the row, changes its own column on the instance in    *)
(* memory and calls save(), which writes every column of the instance.        *)

NoWrite == [pc |-> "idle", op |-> "none", user |-> "", row |-> << >>]

\* dismiss_overlap: TripOverlap.objects.get(id=overlap_id), the flag set on the
\* instance; overlap.save() is next.
ReadForDismiss(p, overlap_id, user) ==
    /\ procs[p].pc = "idle"
    /\ \E o \in overlap_by_id(overlaps, overlap_id) :
          /\ user \in Parties(o)
          /\ procs' = [procs EXCEPT ![p] =
                [pc |-> "save", op |-> "dismiss", user |-> user,
                 row |-> IF o.user1 = user THEN [o EXCEPT !.user1_dismissed = TRUE]
                         ELSE [o EXCEPT !.user2_dismissed = TRUE]]]
    /\ UNCHANGED <<today, users, trips, friendships, blocks, overlaps, unique_pair,
                   sessions, notifications, log, req>>

\* undismiss: TripOverlap.objects.get(id=pk), the flag cleared on the instance.
ReadForUndismiss(p, pk, user) ==
    /\ procs[p].pc = "idle"
    /\ \E o \in overlap_by_id(overlaps, pk) :
          /\ user \in Parties(o)
          /\ procs' = [procs EXCEPT ![p] =
                [pc |-> "save", op |-> "undismiss", user |-> user,
                 row |-> IF o.user1 = user THEN [o EXCEPT !.user1_dismissed = FALSE]
                         ELSE [o EXCEPT !.user2_dismissed = FALSE]]]
    /\ UNCHANGED <<today, users, trips, friendships, blocks, overlaps, unique_pair,
                   sessions, notifications, log, req>>

\* send_overlap_notifications: an unsent overlap as the task's query returned it;
\* the notifier calls and overlap.save() are next.
ReadForNotify(p, overlap_id) ==
    /\ procs[p].pc = "idle"
    /\ \E o \in overlap_by_id(unsent_overlaps, overlap_id) :
          procs' = [procs EXCEPT ![p] =
                [pc |-> "save", op |-> "notify", user |-> "celery",
                 row |-> [o EXCEPT !.notification_sent = TRUE]]]
    /\ UNCHANGED <<today, users, trips, friendships, blocks, overlaps, unique_pair,
                   sessions, notifications, log, req>>

\* overlap.save(): UPDATE of every column where id = overlap.id; the task has
\* notified both users before it.
SaveRow(p) ==
    /\ procs[p].pc = "save"
    /\ LET row == procs[p].row
           created == IF procs[p].op = "notify"
                      THEN {<<row.user1, row.id>>, <<row.user2, row.id>>} ELSE {}
       IN /\ \A key \in created : notification_count(notifications, key) < MaxNotifications
          /\ overlaps' = {o \in overlaps : o.id # row.id} \cup {row}
          /\ notifications' = store_notifications(notifications, created)
    /\ procs' = [procs EXCEPT ![p] = NoWrite]
    /\ UNCHANGED <<today, users, trips, friendships, blocks, unique_pair, sessions,
                   log, req>>

InitDismissConc ==
    /\ today = 1
    /\ users = [u \in {"a", "b"} |-> NewUser]
    /\ \E e \in Days :
        trips = {NewTrip("t1", "a", "d1", 1, MaxDay, "looking_for_partners"),
                 NewTrip("t2", "b", "d1", 1, e, "looking_for_partners")}
    /\ friendships = {}
    /\ blocks = {}
    /\ overlaps = {}
    /\ unique_pair = FALSE
    /\ sessions = {}
    /\ notifications = << >>
    /\ procs = [p \in ProcIds |-> NoWrite]
    /\ log = NoRun
    /\ req = NoRequest

NextDismissConc ==
    \/ \E u \in UserIds : DetectForUser(u)
    \/ \E p \in ProcIds :
        \/ \E id \in OverlapIds, u \in UserIds : ReadForDismiss(p, id, u)
        \/ \E id \in OverlapIds, u \in UserIds : ReadForUndismiss(p, id, u)
        \/ \E id \in OverlapIds : ReadForNotify(p, id)
        \/ SaveRow(p)

SpecDismissConc == InitDismissConc /\ [][NextDismissConc]_vars

\* The step is the save() of a dismiss or undismiss request of `user`.
SavedBy(user) ==
    \E p \in ProcIds :
        /\ procs[p].pc = "save" /\ procs'[p].pc = "idle"
        /\ procs[p].user = user
        /\ procs[p].op \in {"dismiss", "undismiss"}

\* C25: a party's dismissed flag on an overlap changes only in a step that is that
\* party's own dismiss or undismiss; no write of the other party or of a
\* notification task sets, clears or reverts it.
C25_FlagsChangeOnlyByOwner ==
    [][\A o \in overlaps, n \in overlaps' :
          o.id = n.id =>
              /\ o.user1_dismissed # n.user1_dismissed => SavedBy(o.user1)
              /\ o.user2_dismissed # n.user2_dismissed => SavedBy(o.user2)]_vars

----------------------------------------------------------------------------
(* One pair of trips detected from either owner's side: friends or not, either *)
(* profile hidden or not, a block in either direction or none                  *)

InitBothSides ==
    /\ today = 1
    /\ \E va \in BOOLEAN, vb \in BOOLEAN :
        users = [u \in {"a", "b"} |->
                    [NewUser EXCEPT !.profile_visible = IF u = "a" THEN va ELSE vb]]
    /\ \E v1 \in OpenStatuses, v2 \in OpenStatuses, s \in Days,
          d1 \in {{}, {"sport", "trad"}}, d2 \in {{}, {"sport"}},
          c1 \in {{}, {"x"}}, c2 \in {{"x"}, {"y"}},
          g1 \in {<<"", 0, 0>>, <<"yds", 2, 3>>}, g2 \in {<<"yds", 1, 2>>, <<"yds", 4, 4>>} :
        trips = {[NewTrip("t1", "a", "d1", 1, MaxDay, v1)
                    EXCEPT !.preferred_disciplines = d1, !.preferred_crags = c1,
                           !.grade_system = g1[1], !.min_grade = g1[2], !.max_grade = g1[3]],
                 [NewTrip("t2", "b", "d1", s, MaxDay, v2)
                    EXCEPT !.preferred_disciplines = d2, !.preferred_crags = c2,
                           !.grade_system = g2[1], !.min_grade = g2[2], !.max_grade = g2[3]]}
    /\ friendships \in {{}, {[requester |-> "a", addressee |-> "b", status |-> "accepted"]},
                            {[requester |-> "b", addressee |-> "a", status |-> "accepted"]},
                            {[requester |-> "a", addressee |-> "b", status |-> "pending"]}}
    /\ blocks \in {{}, {<<"a", "b">>}}
    /\ overlaps = {}
    /\ unique_pair = FALSE
    /\ sessions = {}
    /\ notifications = << >>
    /\ procs = << >>
    /\ log = NoRun
    /\ req = NoRequest

NextBothSides == \E u \in UserIds : DetectForUser(u)

SpecBothSides == InitBothSides /\ [][NextBothSides]_vars

\* C28: when a run of detect_overlaps_for_user creates the overlap of a trip
\* pair, the score it stores is the score the other owner's run would store for
\* that pair from the same store state.
C28_ScoreSameFromBothSides ==
    [][\A r \in log'.rows, v \in UserIds :
          \A q \in detect_overlaps_for_user(v).created :
              {r.trip1, r.trip2} = {q.trip1, q.trip2} => r.overlap_score = q.overlap_score]_vars

\* b's run created the overlap of friends a and b, whose trips a's run pairs too;
\* the friendship row was requested by a.
C28_Witness ==
    /\ log.op = "detect_overlaps_for_user" /\ log.arg = "b"
    /\ \E r \in log.rows : r.trip1 = "t2" /\ r.trip2 = "t1"
    /\ [requester |-> "a", addressee |-> "b", status |-> "accepted"] \in friendships
    /\ "b" \in visible_to("a")
    /\ "t2" \in {t.id : t \in matching_trips("a", TripById("t1"))}

----------------------------------------------------------------------------
(* FriendshipService.send_friend_request, requests in flight together: the     *)
(* checks read the tables, the INSERT (or the save of the auto-accept) follows *)
(* in a later statement                                                        *)

NoFriendCall == [pc |-> "idle", requester |-> "", addressee |-> "", row |-> << >>]

\* Q(requester=requester, addressee=addressee) | Q(requester=addressee, addressee=requester)
friendships_between(table, a, b) ==
    {f \in table : {f.requester, f.addressee} = {a, b}}

\* unique_together = ('requester', 'addressee')
friendship_insert_raises(table, requester, addressee) ==
    \E f \in table : f.requester = requester /\ f.addressee = addressee

\* send_friend_request up to the statement that writes: a ValueError (same users,
\* a block, already friends, request already sent) ends the call with no write.
StartFriendRequest(p, requester, addressee) ==
    /\ procs[p].pc = "idle"
    /\ requester # addressee
    /\ ~Blocked(requester, addressee)
    /\ LET found == friendships_between(friendships, requester, addressee) IN
        \/ /\ found = {}
           /\ procs' = [procs EXCEPT ![p] = [pc |-> "create", requester |-> requester,
                                             addressee |-> addressee, row |-> << >>]]
        \/ \E existing \in found :
              /\ existing.status = "pending"
              /\ existing.requester # requester
              /\ procs' = [procs EXCEPT ![p] = [pc |-> "accept", requester |-> requester,
                                                addressee |-> addressee,
                                                row |-> existing]]
    /\ UNCHANGED <<today, users, trips, friendships, blocks, overlaps, unique_pair,
                   sessions, notifications, log, req>>

\* Friendship.objects.create(requester, addressee, status='pending'); an
\* IntegrityError leaves the table as it is.
CreateFriendship(p) ==
    /\ procs[p].pc = "create"
    /\ friendships' =
          IF friendship_insert_raises(friendships, procs[p].requester, procs[p].addressee)
          THEN friendships
          ELSE friendships \cup {[requester |-> procs[p].requester,
                                  addressee |-> procs[p].addressee, status |-> "pending"]}
    /\ procs' = [procs EXCEPT ![p] = NoFriendCall]
    /\ UNCHANGED <<today, users, trips, blocks, overlaps, unique_pair, sessions,
                   notifications, log, req>>

\* The auto-accept: existing.status = 'accepted'; existing.save()
SaveAcceptedFriendship(p) ==
    /\ procs[p].pc = "accept"
    /\ friendships' =
          {f \in friendships : ~(/\ f.requester = procs[p].row.requester
                                 /\ f.addressee = procs[p].row.addressee)}
              \cup {[procs[p].row EXCEPT !.status = "accepted"]}
    /\ procs' = [procs EXCEPT ![p] = NoFriendCall]
    /\ UNCHANGED <<today, users, trips, blocks, overlaps, unique_pair, sessions,
                   notifications, log, req>>

InitFriendConc ==
    /\ today = 1
    /\ users = [u \in {"a", "b", "c"} |-> NewUser]
    /\ trips = {}
    /\ friendships = {}
    /\ blocks = {}
    /\ overlaps = {}
    /\ unique_pair = FALSE
    /\ sessions = {}
    /\ notifications = << >>
    /\ procs = [p \in ProcIds |-> NoFriendCall]
    /\ log = Written
    /\ req = NoRequest

NextFriendConc ==
    \E p \in ProcIds :
        \/ \E r \in UserIds, a \in UserIds : StartFriendRequest(p, r, a)
        \/ CreateFriendship(p)
        \/ SaveAcceptedFriendship(p)

SpecFriendConc == InitFriendConc /\ [][NextFriendConc]_vars

\* C30: the friendships table holds at most one row per unordered pair of users.
C30_OneFriendshipPerPair ==
    \A f \in friendships, g \in friendships :
        {f.requester, f.addressee} = {g.requester, g.addressee} => f = g

====
